---- MODULE Spec2Model ----
(***************************************************************************)
(* A model of the build pipeline orchestration of src/rollup/index.ts      *)
(* (src/unnamed/part_001): rollup(), the buildStart / graph.build /        *)
(* buildEnd chain, and the generate() closure of the returned Build.       *)
(*                                                                         *)
(* Promises are modelled by their state; every action is one synchronous   *)
(* run of a callback (the code between two suspension points), or the      *)
(* settlement of a promise owned by a plugin hook or by a collaborator.    *)
(***************************************************************************)
EXTENDS Integers, Sequences, FiniteSets, TLC

\* Number of plugins in inputOptions.plugins (a bound of the model).
NumPlugins == 2

Plugins == 1..NumPlugins

\* Error values.  <<kind, n>> names the place the error was raised.
NoErr == <<"none", 0>>
HookErr(hook, p) == <<hook, p>>
GraphErr == <<"graph.build", 0>>

\* What rollup() resolves with: the RollupBuild object of lines 324-366.
Build == <<"Build", 0>>

\* The slot curWatcher when it holds no watcher.
NoWatcher == 0

\* One construction of a Graph: the watcher argument and whether the
\* constructor returned.
GraphMade(watcher, returned) == [watcher |-> watcher, returned |-> returned]

\* The error of a Graph constructor that throws.
GraphThrown == <<"Graph", 0>>

\* What one invocation of a plugin hook does synchronously: it returns a
\* non-promise value, it throws, or it returns a promise (settled later).
Behaviours == {"returns", "throws", "promise"}

Min(S) == CHOOSE x \in S : \A y \in S : x <= y

VARIABLES
  hasBuildStart,    \* plugins that define buildStart
  hasBuildEnd,      \* plugins that define buildEnd
  rollupPc,         \* position of the rollup() promise chain
  rollupResult,     \* <<"pending", 0>>, <<"Build", 0>>, or the error rollup() rejected with
  buildStartCalls,  \* per plugin: number of buildStart invocations
  buildStartState,  \* per plugin: "idle", "pending", "ok", "failed"
  startAll,         \* state of the promise of applyBuildStartHook
  graphBuild,       \* graph.build: "idle", "running", "ok", "failed"
  buildErr,         \* the err bound in the rejection handler (line 176)
  buildEndCalls,    \* per plugin: number of buildEnd invocations
  buildEndState,    \* per plugin: "idle", "pending", "ok", "failed"
  buildEndArg,      \* per plugin: the err argument buildEnd was invoked with
  endAll            \* state of the promise of applyBuildEndHook

buildVars == <<hasBuildStart, hasBuildEnd, rollupPc, rollupResult, buildStartCalls,
               buildStartState, startAll, graphBuild, buildErr, buildEndCalls,
               buildEndState, buildEndArg, endAll>>

VARIABLES
  optimizeChunksOpt,    \* inputOptions.optimizeChunks
  optimized,            \* the latch "let optimized = false" of line 185
  optimizeCalls,        \* number of invocations of optimizeChunks on this Build
  chunks,               \* the chunk list graph.build resolved with
  chunkId,              \* chunk.id of every chunk: one field, shared by all calls
  assetsById,           \* graph.assetsById: the Asset objects, id = index
  hasOngenerate,        \* plugins that define ongenerate
  hasOnwrite,           \* plugins that define onwrite
  generateBundleScript, \* per plugin: what its generateBundle hook does
  calls,                \* per generate/write call: its closure and promise state
  running               \* the call whose callback is on the stack (0: none)

genVars == <<optimizeChunksOpt, optimized, optimizeCalls, chunks, chunkId, assetsById,
             hasOngenerate, hasOnwrite, generateBundleScript, calls, running>>

VARIABLES
  rawInputOptions,  \* the inputOptions mergeOptions gives for the raw options (line 94)
  optionsHook,      \* per plugin: what its options hook does
  optionsTrace,     \* the invocations of options hooks: <<plugin, value received>>
  inputOptions,     \* <<value>> returned by getInputOptions, <<>> before and when it throws
  graphOptions      \* <<options>> the Graph was constructed with, <<>> when there is none

optVars == <<rawInputOptions, optionsHook, optionsTrace, inputOptions, graphOptions>>

VARIABLES
  createOutputArg,   \* the outputBundle createOutput is applied to: keys in insertion order
  sortEngine,        \* the Array.prototype.sort of the engine the program runs on
  createOutputRes,   \* <<output>> once createOutput has returned, <<>> before
  inputOutput,       \* inputOptions.output, as normalizeOutputOptions reads it
  rawOutputOptions,  \* the rawOutputOptions argument: [top, output]
  outputOptions      \* <<value>> once normalizeOutputOptions has returned, <<>> before

fnVars == <<createOutputArg, sortEngine, createOutputRes, inputOutput, rawOutputOptions,
            outputOptions>>

VARIABLES
  curWatcher,     \* the module-level slot "let curWatcher" of line 147: 0 when undefined
  graphWatchers,  \* per "new Graph(inputOptions, curWatcher)": the watcher passed, and
                  \* whether the constructor returned
  watchersSet,    \* number of setWatcher calls made (each registers a new watcher)
  rollupCalls     \* number of rollup() calls made

watchVars == <<curWatcher, graphWatchers, watchersSet, rollupCalls>>

vars == <<buildVars, genVars, optVars, fnVars, watchVars>>

----------------------------------------------------------------------------
(* Hook fan-out: graph.plugins.map(plugin => plugin.hook && plugin.hook()) *)

\* The first plugin, in declared order, whose hook throws synchronously
\* (0 when none does).  Array.prototype.map stops there.
FirstThrower(D, beh) ==
  IF \E p \in D : beh[p] = "throws" THEN Min({p \in D : beh[p] = "throws"}) ELSE 0

\* The plugins whose hook the map reaches.
Invoked(D, beh) ==
  IF FirstThrower(D, beh) = 0 THEN D ELSE {p \in D : p <= FirstThrower(D, beh)}

\* The state of plugin p's hook invocation right after the map.
StateAfterMap(D, beh, p) ==
  IF p \notin Invoked(D, beh) THEN "idle"
  ELSE IF beh[p] = "returns" THEN "ok"
  ELSE IF beh[p] = "throws" THEN "failed"
  ELSE "pending"

\* A combinator that fulfils as soon as one element is fulfilled.
AllFulfilledAny(states) == \E p \in DOMAIN states : states[p] \in {"idle", "ok"}

\* Promise.all fulfils once every element is fulfilled (elements that are not
\* promises, "idle" here, count as fulfilled).
AllFulfilled(states) == \A p \in DOMAIN states : states[p] \in {"idle", "ok"}

\* The promise Promise.all(...) returns: it rejects with the first rejection
\* of an element, at once, and otherwise fulfils when AllFulfilled.
PromiseAllSettle(all, states, ok, err) ==
  IF all.st # "pending" THEN all
  ELSE IF ~ok THEN [st |-> "rejected", err |-> err]
  ELSE IF AllFulfilled(states) THEN [st |-> "fulfilled", err |-> NoErr]
  ELSE all

PromiseAllNew(states) ==
  IF AllFulfilled(states) THEN [st |-> "fulfilled", err |-> NoErr]
  ELSE [st |-> "pending", err |-> NoErr]

NoPromise == [st |-> "none", err |-> NoErr]

----------------------------------------------------------------------------
(* getInputOptions                                                         *)

\* Largest number of entry points in inputOptions.input (a bound of the model).
MaxInputs == 2

\* The input options getInputOptions reads.  "legacy" stands for one of the
\* options transform, load, resolveId, resolveExternal being set; "inputs" is
\* the number of entries of inputOptions.input.
InputOptionsSet ==
  [legacy : BOOLEAN, inlineDynamicImports : BOOLEAN, preserveModules : BOOLEAN,
   manualChunks : BOOLEAN, optimizeChunks : BOOLEAN, inputs : 1..MaxInputs]

DefaultInputOptions ==
  [legacy |-> FALSE, inlineDynamicImports |-> FALSE, preserveModules |-> FALSE,
   manualChunks |-> FALSE, optimizeChunks |-> FALSE, inputs |-> 1]

\* What a plugin's options hook does: "absent": the plugin defines none;
\* "nothing": it returns undefined; "preserve": it returns a copy of the
\* options it received with preserveModules set; "manualIfPreserve": it
\* returns a copy with manualChunks set to the preserveModules it received.
OptionScripts == {"absent", "nothing", "preserve", "manualIfPreserve"}

\* plugin.options(inputOptions) for a hook that returns an object.
OptionsHookValue(script, o) ==
  IF script = "preserve" THEN [o EXCEPT !.preserveModules = TRUE]
  ELSE [o EXCEPT !.manualChunks = o.preserveModules]

\* A reducer that drops what the hook returns.
ApplyOptionHookDropped(o, p) == o

\* applyOptionHook, lines 73-76.
ApplyOptionHook(o, p) ==
  IF optionsHook[p] = "absent" THEN o
  ELSE IF optionsHook[p] = "nothing" THEN o
  ELSE OptionsHookValue(optionsHook[p], o)

\* inputOptions.plugins.reduce(applyOptionHook, inputOptions), line 104, from
\* plugin p on: the folded value and the hook invocations made.
RECURSIVE ReduceOptions(_, _, _)
ReduceOptions(p, o, trace) ==
  IF p > NumPlugins THEN [value |-> o, trace |-> trace]
  ELSE ReduceOptions(p + 1, ApplyOptionHook(o, p),
                     IF optionsHook[p] = "absent" THEN trace ELSE Append(trace, <<p, o>>))

\* checkInputOptions, lines 39-45.
LegacyOptionError(o) == IF o.legacy THEN <<"LEGACY_OPTION", 0>> ELSE NoErr

\* The checks of lines 106-142: the error thrown, NoErr when none is.
InputOptionError(o) ==
  IF o.inlineDynamicImports
  THEN IF o.manualChunks THEN <<"INVALID_OPTION", 107>>
       ELSE IF o.optimizeChunks THEN <<"INVALID_OPTION", 113>>
       ELSE IF o.inputs > 1 THEN <<"INVALID_OPTION", 118>>
       ELSE NoErr
  ELSE IF o.preserveModules
  THEN IF o.inlineDynamicImports THEN <<"INVALID_OPTION", 127>>
       ELSE IF o.manualChunks THEN <<"INVALID_OPTION", 132>>
       ELSE IF o.optimizeChunks THEN <<"INVALID_OPTION", 137>>
       ELSE NoErr
  ELSE NoErr

\* getInputOptions, lines 90-145, on the merged options: the error it throws,
\* the value it returns and the options hooks it invoked.
GetInputOptions(raw) ==
  IF LegacyOptionError(raw) # NoErr
  THEN [err |-> LegacyOptionError(raw), value |-> raw, trace |-> <<>>]
  ELSE LET folded == ReduceOptions(1, raw, <<>>)
       IN [err |-> InputOptionError(folded.value), value |-> folded.value,
           trace |-> folded.trace]

----------------------------------------------------------------------------
(* rollup(): the BUILD phase                                               *)

\* The calls of rollup() explored: any plugins with buildStart and buildEnd
\* hooks on plain options, or any options and options hooks on plugins
\* without buildStart and buildEnd.
BuildSetup ==
  \/ rawInputOptions = DefaultInputOptions /\ optionsHook = [p \in Plugins |-> "absent"]
  \/ hasBuildStart = {} /\ hasBuildEnd = {}

BuildInit ==
  /\ rawInputOptions \in InputOptionsSet
  /\ optionsHook \in [Plugins -> OptionScripts]
  /\ optionsTrace = <<>>
  /\ inputOptions = <<>>
  /\ graphOptions = <<>>
  /\ hasBuildStart \in SUBSET Plugins
  /\ hasBuildEnd \in SUBSET Plugins
  /\ rollupPc = "start"
  /\ rollupResult = <<"pending", 0>>
  /\ buildStartCalls = [p \in Plugins |-> 0]
  /\ buildStartState = [p \in Plugins |-> "idle"]
  /\ startAll = NoPromise
  /\ graphBuild = "idle"
  /\ buildErr = NoErr
  /\ buildEndCalls = [p \in Plugins |-> 0]
  /\ buildEndState = [p \in Plugins |-> "idle"]
  /\ buildEndArg = [p \in Plugins |-> NoErr]
  /\ endAll = NoPromise
  /\ curWatcher = NoWatcher
  /\ graphWatchers = <<>>
  /\ watchersSet = 0
  /\ rollupCalls = 1

\* rollup() up to applyBuildStartHook(graph), lines 152-162: getInputOptions,
\* new Graph(inputOptions, curWatcher), and the buildStart hooks, invoked
\* synchronously inside the try block.  What throws there leaves through the
\* catch clause, which returns Promise.reject(err).
RollupStart ==
  /\ rollupPc = "start"
  /\ LET got == GetInputOptions(rawInputOptions)
     IN /\ optionsTrace' = got.trace
        /\ IF got.err # NoErr
           THEN /\ rollupPc' = "rejected"
                /\ rollupResult' = got.err
                /\ inputOptions' = <<>>
                /\ graphOptions' = <<>>
                /\ UNCHANGED <<buildStartCalls, buildStartState, startAll>>
                /\ UNCHANGED <<curWatcher, graphWatchers>>
           ELSE /\ inputOptions' = <<got.value>>
                /\ graphOptions' = <<got.value>>
                /\ graphWatchers' = Append(graphWatchers, GraphMade(curWatcher, TRUE))
                /\ curWatcher' = NoWatcher
                /\ \E beh \in [hasBuildStart -> Behaviours] :
                     LET thrower == FirstThrower(hasBuildStart, beh)
                         states == [p \in Plugins |-> StateAfterMap(hasBuildStart, beh, p)]
                     IN /\ buildStartCalls' = [p \in Plugins |->
                               IF p \in Invoked(hasBuildStart, beh) THEN 1 ELSE 0]
                        /\ buildStartState' = states
                        /\ IF thrower # 0
                           THEN /\ rollupPc' = "rejected"
                                /\ rollupResult' = HookErr("buildStart", thrower)
                                /\ startAll' = NoPromise
                           ELSE /\ rollupPc' = "buildStart"
                                /\ rollupResult' = rollupResult
                                /\ startAll' = PromiseAllNew(states)
  /\ UNCHANGED <<hasBuildStart, hasBuildEnd, graphBuild, buildErr, buildEndCalls,
                 buildEndState, buildEndArg, endAll>>
  /\ UNCHANGED <<genVars, rawInputOptions, optionsHook, fnVars, watchersSet, rollupCalls>>

\* rollup() when the Graph constructor throws (line 156): line 157 is not
\* reached and the catch clause of lines 367-369 returns Promise.reject(err).
RollupGraphThrows ==
  /\ rollupPc = "start"
  /\ LET got == GetInputOptions(rawInputOptions)
     IN /\ got.err = NoErr
        /\ optionsTrace' = got.trace
        /\ inputOptions' = <<got.value>>
        /\ graphOptions' = <<>>
        /\ graphWatchers' = Append(graphWatchers, GraphMade(curWatcher, FALSE))
  /\ rollupPc' = "rejected"
  /\ rollupResult' = GraphThrown
  /\ UNCHANGED <<hasBuildStart, hasBuildEnd, buildStartCalls, buildStartState, startAll,
                 graphBuild, buildErr, buildEndCalls, buildEndState, buildEndArg, endAll>>
  /\ UNCHANGED <<genVars, rawInputOptions, optionsHook, fnVars, curWatcher, watchersSet,
                 rollupCalls>>

\* A promise returned by a buildStart hook settles.
BuildStartSettle(p, ok) ==
  /\ buildStartState[p] = "pending"
  /\ buildStartState' = [buildStartState EXCEPT ![p] = IF ok THEN "ok" ELSE "failed"]
  /\ startAll' = PromiseAllSettle(startAll, buildStartState', ok, HookErr("buildStart", p))
  /\ UNCHANGED <<hasBuildStart, hasBuildEnd, rollupPc, rollupResult, buildStartCalls,
                 graphBuild, buildErr, buildEndCalls, buildEndState, buildEndArg, endAll>>
  /\ UNCHANGED <<genVars, optVars, fnVars, watchVars>>

\* .then(() => graph.build(...)), lines 163-170.
GraphBuildStart ==
  /\ rollupPc = "buildStart"
  /\ startAll.st = "fulfilled"
  /\ rollupPc' = "graphBuild"
  /\ graphBuild' = "running"
  /\ UNCHANGED <<hasBuildStart, hasBuildEnd, rollupResult, buildStartCalls, buildStartState,
                 startAll, buildErr, buildEndCalls, buildEndState, buildEndArg, endAll>>
  /\ UNCHANGED <<genVars, optVars, fnVars, watchVars>>

\* The promise of graph.build settles.
GraphBuildSettle(ok) ==
  /\ graphBuild = "running"
  /\ graphBuild' = IF ok THEN "ok" ELSE "failed"
  /\ UNCHANGED <<hasBuildStart, hasBuildEnd, rollupPc, rollupResult, buildStartCalls,
                 buildStartState, startAll, buildErr, buildEndCalls, buildEndState,
                 buildEndArg, endAll>>
  /\ UNCHANGED <<genVars, optVars, fnVars, watchVars>>

\* The error the two-argument .then of lines 171-180 receives: NoErr when the
\* chain so far is fulfilled.
ChainErr ==
  IF rollupPc = "buildStart" THEN startAll.err
  ELSE IF graphBuild = "failed" THEN GraphErr
  ELSE NoErr

\* The two-argument .then of lines 171-180 runs: applyBuildEndHook(graph) on
\* fulfilment, applyBuildEndHook(graph, err) on rejection.  A buildEnd hook
\* that throws synchronously rejects the promise of this .then.
BuildEndInvoke ==
  /\ \/ rollupPc = "buildStart" /\ startAll.st = "rejected"
     \/ rollupPc = "graphBuild" /\ graphBuild \in {"ok", "failed"}
  /\ \E beh \in [hasBuildEnd -> Behaviours] :
       LET thrower == FirstThrower(hasBuildEnd, beh)
           states == [p \in Plugins |-> StateAfterMap(hasBuildEnd, beh, p)]
       IN /\ buildEndCalls' = [p \in Plugins |->
                 IF p \in Invoked(hasBuildEnd, beh) THEN 1 ELSE 0]
          /\ buildEndState' = states
          /\ buildEndArg' = [p \in Plugins |->
                 IF p \in Invoked(hasBuildEnd, beh) THEN ChainErr ELSE NoErr]
          /\ buildErr' = ChainErr
          /\ IF thrower # 0
             THEN /\ rollupPc' = "rejected"
                  /\ rollupResult' = HookErr("buildEnd", thrower)
                  /\ endAll' = NoPromise
             ELSE /\ rollupPc' = "buildEnd"
                  /\ rollupResult' = rollupResult
                  /\ endAll' = PromiseAllNew(states)
  /\ UNCHANGED <<hasBuildStart, hasBuildEnd, buildStartCalls, buildStartState, startAll,
                 graphBuild>>
  /\ UNCHANGED <<genVars, optVars, fnVars, watchVars>>

\* A promise returned by a buildEnd hook settles.
BuildEndSettle(p, ok) ==
  /\ buildEndState[p] = "pending"
  /\ buildEndState' = [buildEndState EXCEPT ![p] = IF ok THEN "ok" ELSE "failed"]
  /\ endAll' = PromiseAllSettle(endAll, buildEndState', ok, HookErr("buildEnd", p))
  /\ UNCHANGED <<hasBuildStart, hasBuildEnd, rollupPc, rollupResult, buildStartCalls,
                 buildStartState, startAll, graphBuild, buildErr, buildEndCalls, buildEndArg>>
  /\ UNCHANGED <<genVars, optVars, fnVars, watchVars>>

\* The outcome of the chain once the promise of applyBuildEndHook has settled:
\* "() => chunks" / "() => { throw err }" on fulfilment (lines 173-179), the
\* rejection of applyBuildEndHook itself otherwise.
RollupOutcome(all, err) ==
  IF all.st = "rejected" THEN all.err
  ELSE IF err # NoErr THEN err
  ELSE Build

\* The promise of applyBuildEndHook has settled: rollup() settles.  (The last
\* .then, lines 181-367, only creates the Build handle.)
RollupSettle ==
  /\ rollupPc = "buildEnd"
  /\ endAll.st \in {"fulfilled", "rejected"}
  /\ rollupResult' = RollupOutcome(endAll, buildErr)
  /\ rollupPc' = IF rollupResult' = Build THEN "resolved" ELSE "rejected"
  /\ UNCHANGED <<hasBuildStart, hasBuildEnd, buildStartCalls, buildStartState, startAll,
                 graphBuild, buildErr, buildEndCalls, buildEndState, buildEndArg, endAll>>
  /\ UNCHANGED <<genVars, optVars, fnVars, watchVars>>

BuildNext ==
  \/ RollupStart
  \/ \E p \in Plugins, ok \in BOOLEAN : BuildStartSettle(p, ok)
  \/ GraphBuildStart
  \/ \E ok \in BOOLEAN : GraphBuildSettle(ok)
  \/ BuildEndInvoke
  \/ \E p \in Plugins, ok \in BOOLEAN : BuildEndSettle(p, ok)
  \/ RollupSettle

----------------------------------------------------------------------------
(* The Build handle: generate() and write()                                *)

\* Bounds of the model.
MaxCalls == 2
MaxChunks == 2

Calls == 1..MaxCalls
ChunkIdx == 1..Len(chunks)

Undefined == "undefined"

\* Output options a caller may pass, with the fields generate and write read.
\* "sourcemap" is whether output.sourcemap is truthy and "inline" whether it
\* is the string 'inline'.
DirEs ==
  [file |-> Undefined, dir |-> "dist", format |-> "es", sourcemap |-> FALSE,
   inline |-> FALSE, sourcemapFile |-> Undefined]
FileEs == [DirEs EXCEPT !.file = "out.js", !.dir = Undefined]
FileAndDir == [DirEs EXCEPT !.file = "out.js"]
DirUmd == [DirEs EXCEPT !.format = "umd"]
NoTarget == [DirEs EXCEPT !.dir = Undefined]
DirIife == [DirEs EXCEPT !.format = "iife"]
DirEsMap == [DirEs EXCEPT !.sourcemap = TRUE]
DirEsInline == [DirEs EXCEPT !.sourcemap = TRUE, !.inline = TRUE]
DirEsMapFile == [DirEs EXCEPT !.sourcemap = TRUE, !.sourcemapFile = "out.js.map"]
FileEsMapFile == [FileEs EXCEPT !.sourcemap = TRUE, !.sourcemapFile = "out.js.map"]

\* The calls a caller makes: <<options, isWrite>>.
CallChoices ==
  {<<DirEs, FALSE>>, <<DirEs, TRUE>>, <<FileEs, TRUE>>,
   <<FileAndDir, FALSE>>, <<DirUmd, FALSE>>, <<NoTarget, TRUE>>}

\* basename(outputOptions.file) for the files above, which have no directory.
Basename(file) == file

\* What a plugin's generateBundle hook does, the same on every invocation:
\* "absent": the plugin defines no generateBundle; "noop": nothing;
\* "emit": this.emitAsset(name, source); "setSource": this.setAssetSource of
\* the first asset emitted during the build; "fail": it fails.
Scripts == {"absent", "noop", "emit", "setSource", "fail"}

\* Hooks that look at the output options they are called with:
\* "setSourceOnMap" does what "setSource" does when outputOptions.sourcemap is
\* set and nothing otherwise, and "failOnMap" likewise fails.
OptionDependentScripts == {"setSourceOnMap", "failOnMap"}

\* What a hook with the given script does when called with options opts.
ScriptFor(script, opts) ==
  IF script = "setSourceOnMap" THEN (IF opts.sourcemap THEN "setSource" ELSE "noop")
  ELSE IF script = "failOnMap" THEN (IF opts.sourcemap THEN "fail" ELSE "noop")
  ELSE script

\* Whether a hook runs to completion inside the map or returns a promise.
Timings == {"sync", "async"}

----------------------------------------------------------------------------
(* The output bundle: an object, i.e. keys in insertion order              *)

BundleKeys(bundle) == {bundle[k].fileName : k \in DOMAIN bundle}

\* outputBundle[entry.fileName] = entry
BundlePut(bundle, entry) ==
  IF entry.fileName \in BundleKeys(bundle)
  THEN [k \in DOMAIN bundle |->
          IF bundle[k].fileName = entry.fileName THEN entry ELSE bundle[k]]
  ELSE Append(bundle, entry)

\* The skeleton OutputChunk of lines 253-261.  "chunk" is the identity of the
\* Chunk object the entry was made for.
ChunkEntry(name, i) ==
  [fileName |-> name, isAsset |-> FALSE, isEntry |-> chunks[i].isEntry, code |-> Undefined,
   map |-> Undefined, source |-> Undefined, chunk |-> i, asset |-> <<"none", 0, 0>>]

\* The code chunk.render resolves with for chunk i under the given options.
RenderedCode(i, opts) == "code" \o ToString(i) \o ":" \o opts.format

\* The map chunk.render resolves with: a source map when outputOptions.sourcemap
\* is set, null otherwise.
RenderedMap(i, opts) == IF opts.sourcemap THEN "map" \o ToString(i) ELSE "null"

\* What a caller can read of a bundle: file names, code and sources, in order.
Content(bundle) ==
  [k \in DOMAIN bundle |-> <<bundle[k].fileName, bundle[k].code, bundle[k].source>>]

----------------------------------------------------------------------------
(* The asset registry (utils/assetHooks, Graph.finaliseAssets)             *)

\* makeUnique: the name itself, or the name with the first free numeric
\* suffix from 2.
MakeUnique(name, keys) ==
  IF name \notin keys THEN name
  ELSE LET free == {k \in 2..(Cardinality(keys) + 2) : (name \o "~" \o ToString(k)) \notin keys}
       IN name \o "~" \o ToString(Min(free))

\* The file name the asset template gives an asset in a bundle.
AssetFileName(asset, bundle) == MakeUnique("assets/" \o asset.name, BundleKeys(bundle))

\* The OutputAsset finaliseAsset stores.  "asset" is the identity of the Asset
\* object: <<"graph", 0, id>> or <<"call", c, n>>.
AssetEntry(name, asset, ref) ==
  [fileName |-> name, isAsset |-> TRUE, isEntry |-> FALSE, code |-> Undefined,
   map |-> Undefined, source |-> asset.source, chunk |-> 0, asset |-> ref]

\* The assets graph.finaliseAssets puts into the fresh bundle of a call: those
\* that have a source.  The file name comes from the template of the call, so
\* an asset has none yet in the bundle being filled, whatever an earlier call
\* left in its fileName slot.
IsPendingAsset(asset) == asset.source # Undefined

\* graph.finaliseAssets(assetFileNames) from asset k on: the registry with the
\* file names assigned, and the bundle it fills.
RECURSIVE FinaliseAssets(_, _, _)
FinaliseAssets(reg, k, bundle) ==
  IF k > Len(reg) THEN [reg |-> reg, bundle |-> bundle]
  ELSE IF IsPendingAsset(reg[k])
  THEN LET name == AssetFileName(reg[k], bundle)
       IN FinaliseAssets([reg EXCEPT ![k].fileName = name], k + 1,
                         BundlePut(bundle, AssetEntry(name, reg[k], <<"graph", 0, k>>)))
  ELSE FinaliseAssets(reg, k + 1, bundle)

\* A generateBundle context built on graph.assetsById itself.
RegistryAfterEmitShared(reg, asset) == Append(reg, asset)

\* graph.assetsById after an emitAsset of the generateBundle context: that
\* context writes to "assets", the copy made by new Map(graph.assetsById).
RegistryAfterEmit(reg, asset) == reg

----------------------------------------------------------------------------
(* One generate/write call                                                 *)

IdleCall ==
  [pc |-> "idle", isWrite |-> FALSE, opts |-> DirEs, err |-> NoErr, i |-> 0,
   outputBundle |-> <<>>, preRendered |-> {}, ranOptimize |-> FALSE,
   capturedId |-> [k \in ChunkIdx |-> Undefined],
   render |-> [k \in ChunkIdx |-> "idle"],
   ongenerate |-> [k \in ChunkIdx |-> [p \in Plugins |-> "idle"]],
   chunkDone |-> [k \in ChunkIdx |-> "idle"],
   renderAll |-> NoPromise,
   snapshot |-> 0, emitted |-> <<>>,
   bundleHook |-> [p \in Plugins |-> "idle"],
   bundleHookErr |-> [p \in Plugins |-> NoErr],
   bundleAll |-> NoPromise,
   overlapped |-> FALSE, written |-> <<>>,
   named |-> [k \in ChunkIdx |-> Undefined],
   files |-> <<>>, writeAll |-> NoPromise]

InFlight(call) == call.pc \notin {"idle", "done", "failed"}

\* The state before rollup() has resolved: there is no Build handle.
NoBuildYet ==
  /\ optimizeChunksOpt = FALSE
  /\ optimized = FALSE
  /\ optimizeCalls = 0
  /\ chunks = <<>>
  /\ chunkId = <<>>
  /\ assetsById = <<>>
  /\ hasOngenerate = {}
  /\ hasOnwrite = {}
  /\ generateBundleScript = [p \in Plugins |-> "absent"]
  /\ calls = [c \in Calls |-> IdleCall]
  /\ running = 0

Fail(call, e) == [call EXCEPT !.pc = "failed", !.err = e]

\* A format test that knows umd only.
SingleFileFormatUmdOnly(format) == format = "umd"

\* Option errors without the test on file and dir.
OptionErrorFormatOnly(opts, n) ==
  IF n > 1 /\ opts.format \in {"umd", "iife"} THEN <<"INVALID_OPTION", 2>> ELSE NoErr

\* The formats tested at lines 196-199.
SingleFileFormat(format) == format \in {"umd", "iife"}

\* The error raised at lines 190-203 on the output options of a
\* Build of n chunks; NoErr when generate goes on to the GENERATE phase.
OptionError(opts, n) ==
  IF opts.file # Undefined /\ opts.dir # Undefined THEN <<"INVALID_OPTION", 1>>
  ELSE IF n > 1 /\ SingleFileFormat(opts.format) THEN <<"INVALID_OPTION", 2>>
  ELSE NoErr

\* generate(rawOutputOptions, isWrite) up to "return createAddons(...)",
\* lines 187-215, preceded for write by the check of lines 333-338.
GenerateCall(c, opts, isWrite) ==
  /\ rollupPc = "resolved"
  /\ running = 0
  /\ calls[c].pc = "idle"
  /\ \A d \in Calls : d < c => calls[d].pc # "idle"
  /\ LET others == {d \in Calls : InFlight(calls[d])}
         call == [calls[c] EXCEPT !.isWrite = isWrite, !.opts = opts]
         fin == FinaliseAssets(assetsById, 1, <<>>)
     IN IF isWrite /\ opts.dir = Undefined /\ opts.file = Undefined
        THEN /\ calls' = [calls EXCEPT ![c] = Fail(call, <<"MISSING_OPTION", 0>>)]
             /\ assetsById' = assetsById
        ELSE IF OptionError(opts, Len(chunks)) # NoErr
        THEN /\ calls' = [calls EXCEPT ![c] = Fail(call, OptionError(opts, Len(chunks)))]
             /\ assetsById' = assetsById
        ELSE /\ calls' = [d \in Calls |->
                  IF d = c
                  THEN [call EXCEPT !.pc = "addons", !.outputBundle = fin.bundle,
                                    !.overlapped = others # {}]
                  ELSE IF d \in others THEN [calls[d] EXCEPT !.overlapped = TRUE]
                  ELSE calls[d]]
             /\ assetsById' = fin.reg
  /\ UNCHANGED <<optimizeChunksOpt, optimized, optimizeCalls, chunks, chunkId,
                 hasOngenerate, hasOnwrite, generateBundleScript, running>>
  /\ UNCHANGED <<buildVars, optVars, fnVars, watchVars>>

\* The promise of createAddons settles; on fulfilment the callback of lines
\* 216-287 starts to run.
AddonsSettle(c, ok) ==
  /\ running = 0
  /\ calls[c].pc = "addons"
  /\ IF ok
     THEN /\ calls' = [calls EXCEPT ![c] = [@ EXCEPT !.pc = "prerender", !.i = 1]]
          /\ running' = c
     ELSE /\ calls' = [calls EXCEPT ![c] = Fail(@, <<"createAddons", 0>>)]
          /\ running' = 0
  /\ UNCHANGED <<optimizeChunksOpt, optimized, optimizeCalls, chunks, chunkId, assetsById,
                 hasOngenerate, hasOnwrite, generateBundleScript>>
  /\ UNCHANGED <<buildVars, optVars, fnVars, watchVars>>

\* Where the callback goes after chunk i is pre-rendered, if optimization ran
\* inside the loop.
PcAfterPreRenderEarly(i) == "optimize"

\* Where the callback goes after chunk i is pre-rendered: line 226 follows
\* the loop of lines 223-225.
PcAfterPreRender(i) == IF i = Len(chunks) THEN "optimize" ELSE "prerender"

\* One iteration of "for (const chunk of chunks) chunk.preRender(...)", lines
\* 218-225; preRender may throw.
PreRenderChunk(c, ok) ==
  /\ running = c
  /\ calls[c].pc = "prerender"
  /\ LET i == calls[c].i
     IN IF ok
        THEN /\ calls' = [calls EXCEPT ![c] =
                  [@ EXCEPT !.preRendered = @ \cup {i}, !.i = i + 1,
                            !.pc = PcAfterPreRender(i)]]
             /\ running' = c
        ELSE /\ calls' = [calls EXCEPT ![c] = Fail(@, <<"preRender", i>>)]
             /\ running' = 0
  /\ UNCHANGED <<optimizeChunksOpt, optimized, optimizeCalls, chunks, chunkId, assetsById,
                 hasOngenerate, hasOnwrite, generateBundleScript>>
  /\ UNCHANGED <<buildVars, optVars, fnVars, watchVars>>

\* The condition of line 226, without the latch.
ShouldOptimizeNoLatch(latch, option) == option

\* The condition of line 226.
ShouldOptimize(latch, option) == ~latch /\ option

\* Lines 226-229.  optimizeChunks is taken to return normally; what it does
\* to the chunks is not represented: the step records that it ran.
OptimizeStep(c) ==
  /\ running = c
  /\ calls[c].pc = "optimize"
  /\ IF ShouldOptimize(optimized, optimizeChunksOpt)
     THEN /\ optimizeCalls' = optimizeCalls + 1
          /\ optimized' = TRUE
          /\ calls' = [calls EXCEPT ![c] =
                [@ EXCEPT !.pc = "naming", !.i = 1, !.ranOptimize = TRUE]]
     ELSE /\ UNCHANGED <<optimizeCalls, optimized>>
          /\ calls' = [calls EXCEPT ![c] = [@ EXCEPT !.pc = "naming", !.i = 1]]
  /\ UNCHANGED <<optimizeChunksOpt, chunks, chunkId, assetsById, hasOngenerate, hasOnwrite,
                 generateBundleScript, running>>
  /\ UNCHANGED <<buildVars, optVars, fnVars, watchVars>>

\* chunk.generateId: the pattern of an entry facade is "[name].js", of another
\* chunk "[name]-[hash].js"; the name is made unique in the bundle.
GenerateId(i, bundle) ==
  MakeUnique((IF chunks[i].isEntry THEN "entry" ELSE "chunk") \o ToString(i) \o ".js",
             BundleKeys(bundle))

\* The id lines 238-252 give chunk i.
NewChunkId(i, opts, bundle) ==
  IF opts.file # Undefined THEN Basename(opts.file) ELSE GenerateId(i, bundle)

\* One iteration of the naming loop, lines 232-262.
NameChunk(c) ==
  /\ running = c
  /\ calls[c].pc = "naming"
  /\ LET i == calls[c].i
         id == NewChunkId(i, calls[c].opts, calls[c].outputBundle)
     IN /\ chunkId' = [chunkId EXCEPT ![i] = id]
        /\ calls' = [calls EXCEPT ![c] =
             [@ EXCEPT !.outputBundle = BundlePut(@, ChunkEntry(id, i)), !.i = i + 1,
                       !.named[i] = id,
                       !.pc = IF i = Len(chunks) THEN "startRender" ELSE "naming"]]
  /\ UNCHANGED <<optimizeChunksOpt, optimized, optimizeCalls, chunks, assetsById,
                 hasOngenerate, hasOnwrite, generateBundleScript, running>>
  /\ UNCHANGED <<buildVars, optVars, fnVars, watchVars>>

\* chunks.map(chunk => { const chunkId = chunk.id; return chunk.render(...) }),
\* lines 265-268: every render is started, and the callback returns.
StartRenders(c) ==
  /\ running = c
  /\ calls[c].pc = "startRender"
  /\ calls' = [calls EXCEPT ![c] =
       [@ EXCEPT !.pc = "rendering", !.capturedId = chunkId,
                 !.render = [k \in ChunkIdx |-> "pending"],
                 !.chunkDone = [k \in ChunkIdx |-> "pending"],
                 !.renderAll = [st |-> "pending", err |-> NoErr]]]
  /\ running' = 0
  /\ UNCHANGED <<optimizeChunksOpt, optimized, optimizeCalls, chunks, chunkId, assetsById,
                 hasOngenerate, hasOnwrite, generateBundleScript>>
  /\ UNCHANGED <<buildVars, optVars, fnVars, watchVars>>

\* outputChunk.code = rendered.code on the entry outputBundle[chunkId].
StoreCode(bundle, id, code) ==
  [k \in DOMAIN bundle |->
     IF bundle[k].fileName = id THEN [bundle[k] EXCEPT !.code = code] ELSE bundle[k]]

\* outputChunk.map = rendered.map on the entry outputBundle[chunkId].
StoreMap(bundle, id, map) ==
  [k \in DOMAIN bundle |->
     IF bundle[k].fileName = id THEN [bundle[k] EXCEPT !.map = map] ELSE bundle[k]]

\* A render callback that reads chunk.id when it runs.
RenderTargetShared(c, i) == chunkId[i]

\* The key the render callback of chunk i in call c writes to: the constant
\* chunkId of line 266, taken from chunk.id when the render was started.
RenderTarget(c, i) == calls[c].capturedId[i]

\* The promise of chunk.render settles.  On fulfilment the callback of lines
\* 268-284 stores the code and invokes the ongenerate hooks.
RenderSettle(c, i, ok) ==
  /\ running = 0
  /\ i \in ChunkIdx
  /\ calls[c].render[i] = "pending"
  /\ IF ~ok
     THEN calls' = [calls EXCEPT ![c] =
            [@ EXCEPT !.render[i] = "failed", !.chunkDone[i] = "failed",
                      !.renderAll = PromiseAllSettle(@, calls[c].chunkDone, FALSE,
                                                     <<"render", i>>)]]
     ELSE \E beh \in [hasOngenerate -> Behaviours] :
            LET thrower == FirstThrower(hasOngenerate, beh)
                states == [p \in Plugins |-> StateAfterMap(hasOngenerate, beh, p)]
                done == IF thrower # 0 THEN "failed"
                        ELSE IF AllFulfilled(states) THEN "ok" ELSE "pending"
                dones == [calls[c].chunkDone EXCEPT ![i] = done]
            IN calls' = [calls EXCEPT ![c] =
                 [@ EXCEPT !.render[i] = "ok",
                           !.outputBundle =
                              StoreMap(StoreCode(@, RenderTarget(c, i),
                                                 RenderedCode(i, calls[c].opts)),
                                       RenderTarget(c, i),
                                       RenderedMap(i, calls[c].opts)),
                           !.ongenerate[i] = states,
                           !.chunkDone = dones,
                           !.renderAll =
                              IF done = "pending" THEN @
                              ELSE PromiseAllSettle(@, dones, done = "ok",
                                                    HookErr("ongenerate", thrower))]]
  /\ UNCHANGED <<optimizeChunksOpt, optimized, optimizeCalls, chunks, chunkId, assetsById,
                 hasOngenerate, hasOnwrite, generateBundleScript, running>>
  /\ UNCHANGED <<buildVars, optVars, fnVars, watchVars>>

\* A promise returned by an ongenerate hook settles.
OngenerateSettle(c, i, p, ok) ==
  /\ running = 0
  /\ i \in ChunkIdx
  /\ calls[c].ongenerate[i][p] = "pending"
  /\ LET states == [calls[c].ongenerate[i] EXCEPT ![p] = IF ok THEN "ok" ELSE "failed"]
         done == IF calls[c].chunkDone[i] # "pending" THEN calls[c].chunkDone[i]
                 ELSE IF ~ok THEN "failed"
                 ELSE IF AllFulfilled(states) THEN "ok" ELSE "pending"
         dones == [calls[c].chunkDone EXCEPT ![i] = done]
     IN calls' = [calls EXCEPT ![c] =
          [@ EXCEPT !.ongenerate[i] = states,
                    !.chunkDone = dones,
                    !.renderAll =
                       IF done = calls[c].chunkDone[i] THEN @
                       ELSE PromiseAllSettle(@, dones, done = "ok",
                                             HookErr("ongenerate", p))]]
  /\ UNCHANGED <<optimizeChunksOpt, optimized, optimizeCalls, chunks, chunkId, assetsById,
                 hasOngenerate, hasOnwrite, generateBundleScript, running>>
  /\ UNCHANGED <<buildVars, optVars, fnVars, watchVars>>

\* The Promise.all of line 265 has rejected: the two .then of lines 288 and
\* 317 are skipped and the promise of generate rejects.
RenderRejected(c) ==
  /\ running = 0
  /\ calls[c].pc = "rendering"
  /\ calls[c].renderAll.st = "rejected"
  /\ calls' = [calls EXCEPT ![c] = Fail(@, calls[c].renderAll.err)]
  /\ UNCHANGED <<optimizeChunksOpt, optimized, optimizeCalls, chunks, chunkId, assetsById,
                 hasOngenerate, hasOnwrite, generateBundleScript, running>>
  /\ UNCHANGED <<buildVars, optVars, fnVars, watchVars>>

\* The Asset object emitAsset creates.
\* "setBy" records which generate/write call set the source (0: the build).
NewAsset(name, source) ==
  [name |-> name, source |-> source, fileName |-> Undefined, setBy |-> 0]

\* The body of plugin p's generateBundle hook, run with the generateBundle
\* context of call c on st = [bundle, emitted, reg, snapshot, ...]: the
\* bundle, the assets emitted in this call, the registry objects, and the
\* error the body ends with.
HookBody(p, c, st) ==
  LET script == ScriptFor(generateBundleScript[p], calls[c].opts)
      TargetAsset == 1
      same == [bundle |-> st.bundle, emitted |-> st.emitted, reg |-> st.reg, err |-> NoErr]
  IN IF script = "fail" THEN [same EXCEPT !.err = HookErr("generateBundle", p)]
     ELSE IF script = "emit"
     THEN LET name == AssetFileName(NewAsset("emitted", "data"), st.bundle)
              asset == [NewAsset("emitted", "data") EXCEPT !.fileName = name]
          IN [bundle |-> BundlePut(st.bundle,
                           AssetEntry(name, asset, <<"call", c, Len(st.emitted) + 1>>)),
              emitted |-> Append(st.emitted, asset),
              reg |-> RegistryAfterEmit(st.reg, asset),
              err |-> NoErr]
     ELSE IF script = "setSource"
     THEN IF TargetAsset > st.snapshot THEN [same EXCEPT !.err = <<"UNKNOWN_ASSET", 0>>]
          ELSE IF st.reg[TargetAsset].fileName # Undefined
                  /\ st.reg[TargetAsset].source # Undefined
          THEN [same EXCEPT !.err = <<"ASSET_FINALIZED", 0>>]
          ELSE LET sourced == [st.reg[TargetAsset] EXCEPT !.source = "late", !.setBy = c]
                   name == AssetFileName(sourced, st.bundle)
               IN [bundle |-> BundlePut(st.bundle,
                                AssetEntry(name, sourced, <<"graph", 0, TargetAsset>>)),
                   emitted |-> st.emitted,
                   reg |-> [st.reg EXCEPT ![TargetAsset] =
                              [sourced EXCEPT !.fileName = name]],
                   err |-> NoErr]
     ELSE same

\* generateBundlePlugins.map(plugin => plugin.generateBundle.call(...)), lines
\* 301-308, from plugin p on.  A hook that is "sync" ends inside the map and a
\* failure of it is thrown there; an "async" hook returns a promise.
RECURSIVE RunGenerateBundle(_, _, _, _)
RunGenerateBundle(p, c, timing, st) ==
  IF p > NumPlugins \/ st.thrown # NoErr THEN st
  ELSE IF generateBundleScript[p] = "absent" THEN RunGenerateBundle(p + 1, c, timing, st)
  ELSE LET after == HookBody(p, c, st)
           async == timing[p] = "async"
       IN RunGenerateBundle(p + 1, c, timing,
            [bundle |-> after.bundle, emitted |-> after.emitted, reg |-> after.reg,
             snapshot |-> st.snapshot,
             hook |-> [st.hook EXCEPT ![p] =
                         IF async THEN "pending"
                         ELSE IF after.err = NoErr THEN "ok" ELSE "failed"],
             hookErr |-> [st.hookErr EXCEPT ![p] = after.err],
             thrown |-> IF async THEN NoErr ELSE after.err])

GenerateBundlePlugins == {p \in Plugins : generateBundleScript[p] # "absent"}

\* The pc of a call whose generate() promise has fulfilled: generate resolves
\* with createOutput(result); write goes on to lines 340-362.
Generated(call) == IF call.isWrite THEN "generated" ELSE "done"

\* The .then of lines 288-316 up to the Promise.all of the generateBundle
\* hooks; without such hooks it returns at line 291 and lines 317-320 follow.
GenerateBundleStage(c) ==
  /\ running = 0
  /\ calls[c].pc = "rendering"
  /\ calls[c].renderAll.st = "fulfilled"
  /\ IF GenerateBundlePlugins = {}
     THEN /\ calls' = [calls EXCEPT ![c] = [@ EXCEPT !.pc = Generated(calls[c])]]
          /\ assetsById' = assetsById
     ELSE \E timing \in [GenerateBundlePlugins -> Timings] :
            LET st == RunGenerateBundle(1, c, timing,
                        [bundle |-> calls[c].outputBundle, emitted |-> <<>>,
                         reg |-> assetsById, snapshot |-> Len(assetsById),
                         hook |-> [p \in Plugins |-> "idle"],
                         hookErr |-> [p \in Plugins |-> NoErr],
                         thrown |-> NoErr])
                call == [calls[c] EXCEPT !.outputBundle = st.bundle,
                                         !.emitted = st.emitted,
                                         !.snapshot = Len(assetsById),
                                         !.bundleHook = st.hook,
                                         !.bundleHookErr = st.hookErr]
            IN /\ assetsById' = st.reg
               /\ calls' = [calls EXCEPT ![c] =
                    IF st.thrown # NoErr THEN Fail(call, st.thrown)
                    ELSE [call EXCEPT !.pc = "generateBundle",
                                      !.bundleAll = PromiseAllNew(st.hook)]]
  /\ UNCHANGED <<optimizeChunksOpt, optimized, optimizeCalls, chunks, chunkId,
                 hasOngenerate, hasOnwrite, generateBundleScript, running>>
  /\ UNCHANGED <<buildVars, optVars, fnVars, watchVars>>

\* A promise returned by a generateBundle hook settles.
GenerateBundleSettle(c, p) ==
  /\ running = 0
  /\ calls[c].bundleHook[p] = "pending"
  /\ LET ok == calls[c].bundleHookErr[p] = NoErr
         states == [calls[c].bundleHook EXCEPT ![p] = IF ok THEN "ok" ELSE "failed"]
     IN calls' = [calls EXCEPT ![c] =
          [@ EXCEPT !.bundleHook = states,
                    !.bundleAll = PromiseAllSettle(@, states, ok, calls[c].bundleHookErr[p])]]
  /\ UNCHANGED <<optimizeChunksOpt, optimized, optimizeCalls, chunks, chunkId, assetsById,
                 hasOngenerate, hasOnwrite, generateBundleScript, running>>
  /\ UNCHANGED <<buildVars, optVars, fnVars, watchVars>>

\* assets.forEach(asset => { if (asset.fileName === undefined)
\* finaliseAsset(...) }), lines 311-314, from the k-th asset of the copy on:
\* first the registry objects it was made from, then those emitted in the
\* call.  finaliseAsset fails on an asset without a source.
RECURSIVE ForceFinalise(_, _, _)
ForceFinalise(k, c, st) ==
  IF k > st.snapshot + Len(st.emitted) \/ st.err # NoErr THEN st
  ELSE LET shared == k <= st.snapshot
           asset == IF shared THEN st.reg[k] ELSE st.emitted[k - st.snapshot]
       IN IF asset.fileName # Undefined THEN ForceFinalise(k + 1, c, st)
          ELSE IF asset.source = Undefined
          THEN [st EXCEPT !.err = <<"ASSET_SOURCE_MISSING", 0>>]
          ELSE LET name == AssetFileName(asset, st.bundle)
                   ref == IF shared THEN <<"graph", 0, k>> ELSE <<"call", c, k - st.snapshot>>
               IN ForceFinalise(k + 1, c,
                    [st EXCEPT !.bundle = BundlePut(@, AssetEntry(name, asset, ref)),
                               !.reg = IF shared THEN [@ EXCEPT ![k].fileName = name] ELSE @,
                               !.emitted = IF shared THEN @
                                           ELSE [@ EXCEPT ![k - st.snapshot].fileName = name]])

\* The Promise.all of line 300 has settled: on fulfilment lines 309-315 and
\* 317-320 run, on rejection the promise of generate rejects.
GenerateBundleDone(c) ==
  /\ running = 0
  /\ calls[c].pc = "generateBundle"
  /\ calls[c].bundleAll.st \in {"fulfilled", "rejected"}
  /\ IF calls[c].bundleAll.st = "rejected"
     THEN /\ calls' = [calls EXCEPT ![c] = Fail(@, calls[c].bundleAll.err)]
          /\ assetsById' = assetsById
     ELSE LET st == ForceFinalise(1, c,
                      [bundle |-> calls[c].outputBundle, emitted |-> calls[c].emitted,
                       reg |-> assetsById, snapshot |-> calls[c].snapshot, err |-> NoErr])
              call == [calls[c] EXCEPT !.outputBundle = st.bundle, !.emitted = st.emitted]
          IN /\ assetsById' = st.reg
             /\ calls' = [calls EXCEPT ![c] =
                  IF st.err # NoErr THEN Fail(call, st.err)
                  ELSE [call EXCEPT !.pc = Generated(call)]]
  /\ UNCHANGED <<optimizeChunksOpt, optimized, optimizeCalls, chunks, chunkId,
                 hasOngenerate, hasOnwrite, generateBundleScript, running>>
  /\ UNCHANGED <<buildVars, optVars, fnVars, watchVars>>

\* The error write raises for a bundle of more than one key (lines 340-355):
\* 4 for sourcemapFile, 3 for output.file; NoErr when it goes on to write.
WriteError(bundle, opts) ==
  IF Len(bundle) > 1 /\ opts.sourcemapFile # Undefined THEN <<"INVALID_OPTION", 4>>
  ELSE IF Len(bundle) > 1 /\ opts.file # Undefined THEN <<"INVALID_OPTION", 3>>
  ELSE NoErr

\* The files handed to writeOutputFile, one per key of the bundle (line 357).
FileNames(bundle) == [k \in DOMAIN bundle |-> bundle[k].fileName]

\* A write that goes on while the generateBundle hooks are still running.
WriteReadyEarly(call) == call.pc \in {"generateBundle", "generated"}

\* The callback of line 339 runs when the promise of generate has fulfilled.
WriteReady(call) == call.pc = "generated"

\* Whether writeOutputFile writes a companion .map file for the entry
\* (lines 402-409): source maps are on, the chunk has a map, and
\* output.sourcemap is not 'inline'.
ExternalMap(entry, opts) ==
  ~entry.isAsset /\ opts.sourcemap /\ entry.map \notin {Undefined, "null"} /\ ~opts.inline

\* writeOutputFile up to its return statement (lines 396-413): the writeFile
\* of the .map file, if there is one, is started, then the writeFile of the
\* file itself; the promise chain of lines 413-432 waits for the latter
\* ("code"), then for writeSourceMapPromise ("map"), then for the onwrite
\* hooks ("onwrite").
StartWriteFile(entry, opts) ==
  [isAsset |-> entry.isAsset,
   code |-> "pending",
   map |-> IF ExternalMap(entry, opts) THEN "pending" ELSE "none",
   stage |-> "code",
   onwrite |-> [p \in Plugins |-> "idle"],
   onwriteCalls |-> [p \in Plugins |-> 0]]

\* write, lines 339-361, after generate has resolved: the checks on a bundle
\* of more than one file, then the files are written.
WriteAfterGenerate(c) ==
  /\ running = 0
  /\ WriteReady(calls[c])
  /\ calls' = [calls EXCEPT ![c] =
       IF WriteError(calls[c].outputBundle, calls[c].opts) # NoErr
       THEN Fail(@, WriteError(calls[c].outputBundle, calls[c].opts))
       ELSE [@ EXCEPT !.pc = "writing", !.written = FileNames(calls[c].outputBundle),
                      !.files = [k \in DOMAIN calls[c].outputBundle |->
                                   StartWriteFile(calls[c].outputBundle[k], calls[c].opts)],
                      !.writeAll = [st |-> "pending", err |-> NoErr]]]
  /\ UNCHANGED <<optimizeChunksOpt, optimized, optimizeCalls, chunks, chunkId, assetsById,
                 hasOngenerate, hasOnwrite, generateBundleScript, running>>
  /\ UNCHANGED <<buildVars, optVars, fnVars, watchVars>>

\* The Promise.all of the writeOutputFile calls (line 357) settles, seen
\* from outside: only whether it fulfils.
WriteSettle(c, ok) ==
  /\ running = 0
  /\ calls[c].pc = "writing"
  /\ calls' = [calls EXCEPT ![c] =
       IF ok THEN [@ EXCEPT !.pc = "done"] ELSE Fail(@, <<"writeFile", 0>>)]
  /\ UNCHANGED <<optimizeChunksOpt, optimized, optimizeCalls, chunks, chunkId, assetsById,
                 hasOngenerate, hasOnwrite, generateBundleScript, running>>
  /\ UNCHANGED <<buildVars, optVars, fnVars, watchVars>>

\* Largest number of files in the bundle of a write: the chunks, the assets of
\* the registry and those the generateBundle hooks emit.
MaxWritten == MaxChunks + 1 + NumPlugins

\* The promises of the writeOutputFile calls, as Promise.all sees them.
FileStates(files) ==
  [k \in DOMAIN files |->
     IF files[k].stage = "done" THEN "ok"
     ELSE IF files[k].stage = "failed" THEN "failed" ELSE "pending"]

\* The call after file k of its write became file: the Promise.all of line
\* 357 sees the promise of writeOutputFile settle, if it did.
AfterFileStep(call, k, file, err) ==
  LET files == [call.files EXCEPT ![k] = file]
  IN [call EXCEPT !.files = files,
                  !.writeAll =
                     IF file.stage = call.files[k].stage \/ file.stage \notin {"done", "failed"}
                     THEN @
                     ELSE PromiseAllSettle(@, FileStates(files), file.stage = "done", err)]

\* The promise of writeFile(filename, source), line 413, settles.
CodeWriteSettle(c, k, ok) ==
  /\ running = 0
  /\ k \in DOMAIN calls[c].files
  /\ calls[c].files[k].code = "pending"
  /\ calls' = [calls EXCEPT ![c] =
       AfterFileStep(@, k,
         [calls[c].files[k] EXCEPT !.code = IF ok THEN "written" ELSE "failed",
                                   !.stage = IF ok THEN "map" ELSE "failed"],
         <<"writeFile", k>>)]
  /\ UNCHANGED <<optimizeChunksOpt, optimized, optimizeCalls, chunks, chunkId, assetsById,
                 hasOngenerate, hasOnwrite, generateBundleScript, running>>
  /\ UNCHANGED <<buildVars, optVars, fnVars, watchVars>>

\* The promise of writeFile(filename + '.map', ...), line 408, settles.
MapWriteSettle(c, k, ok) ==
  /\ running = 0
  /\ k \in DOMAIN calls[c].files
  /\ calls[c].files[k].map = "pending"
  /\ calls' = [calls EXCEPT ![c] =
       [@ EXCEPT !.files[k].map = IF ok THEN "written" ELSE "failed"]]
  /\ UNCHANGED <<optimizeChunksOpt, optimized, optimizeCalls, chunks, chunkId, assetsById,
                 hasOngenerate, hasOnwrite, generateBundleScript, running>>
  /\ UNCHANGED <<buildVars, optVars, fnVars, watchVars>>

\* A hook invocation that does not wait for the .map file.
OnwriteReadyCodeOnly(file) == file.stage = "map"

\* The .then of line 414 has passed on what writeSourceMapPromise settled
\* with (at once when there is no such promise).
OnwriteReady(file) == file.stage = "map" /\ file.map # "pending"

\* The callback of lines 416-430: nothing for an asset; for a chunk the onwrite
\* hooks of the plugins that define one are invoked inside a map.  When the
\* .map write failed the callback is skipped and the chain rejects.
AfterWrites(c, k) ==
  /\ running = 0
  /\ k \in DOMAIN calls[c].files
  /\ OnwriteReady(calls[c].files[k])
  /\ LET file == calls[c].files[k]
     IN IF file.map = "failed"
        THEN calls' = [calls EXCEPT ![c] =
               AfterFileStep(@, k, [file EXCEPT !.stage = "failed"], <<"writeFile", k>>)]
        ELSE IF file.isAsset
        THEN calls' = [calls EXCEPT ![c] =
               AfterFileStep(@, k, [file EXCEPT !.stage = "done"], NoErr)]
        ELSE \E beh \in [hasOnwrite -> Behaviours] :
               LET thrower == FirstThrower(hasOnwrite, beh)
                   states == [p \in Plugins |-> StateAfterMap(hasOnwrite, beh, p)]
                   stage == IF thrower # 0 THEN "failed"
                            ELSE IF AllFulfilled(states) THEN "done" ELSE "onwrite"
               IN calls' = [calls EXCEPT ![c] =
                    AfterFileStep(@, k,
                      [file EXCEPT !.stage = stage, !.onwrite = states,
                                   !.onwriteCalls = [p \in Plugins |->
                                      IF p \in Invoked(hasOnwrite, beh) THEN @[p] + 1
                                      ELSE @[p]]],
                      HookErr("onwrite", thrower))]
  /\ UNCHANGED <<optimizeChunksOpt, optimized, optimizeCalls, chunks, chunkId, assetsById,
                 hasOngenerate, hasOnwrite, generateBundleScript, running>>
  /\ UNCHANGED <<buildVars, optVars, fnVars, watchVars>>

\* A promise returned by an onwrite hook settles.
OnwriteSettle(c, k, p, ok) ==
  /\ running = 0
  /\ k \in DOMAIN calls[c].files
  /\ calls[c].files[k].onwrite[p] = "pending"
  /\ LET file == calls[c].files[k]
         states == [file.onwrite EXCEPT ![p] = IF ok THEN "ok" ELSE "failed"]
         stage == IF file.stage # "onwrite" THEN file.stage
                  ELSE IF ~ok THEN "failed"
                  ELSE IF AllFulfilled(states) THEN "done" ELSE "onwrite"
     IN calls' = [calls EXCEPT ![c] =
          AfterFileStep(@, k, [file EXCEPT !.onwrite = states, !.stage = stage],
                        HookErr("onwrite", p))]
  /\ UNCHANGED <<optimizeChunksOpt, optimized, optimizeCalls, chunks, chunkId, assetsById,
                 hasOngenerate, hasOnwrite, generateBundleScript, running>>
  /\ UNCHANGED <<buildVars, optVars, fnVars, watchVars>>

\* The Promise.all of line 357 has settled: write resolves with
\* createOutput(result), or rejects with the first rejection.
WriteDone(c) ==
  /\ running = 0
  /\ calls[c].pc = "writing"
  /\ calls[c].writeAll.st \in {"fulfilled", "rejected"}
  /\ calls' = [calls EXCEPT ![c] =
       IF calls[c].writeAll.st = "fulfilled" THEN [@ EXCEPT !.pc = "done"]
       ELSE Fail(@, calls[c].writeAll.err)]
  /\ UNCHANGED <<optimizeChunksOpt, optimized, optimizeCalls, chunks, chunkId, assetsById,
                 hasOngenerate, hasOnwrite, generateBundleScript, running>>
  /\ UNCHANGED <<buildVars, optVars, fnVars, watchVars>>

----------------------------------------------------------------------------
(* createOutput                                                            *)

\* Largest number of files in a bundle given to createOutput (a bound).
MaxFiles == 4

FileKinds == {"entry", "shared", "asset"}

\* The k-th file inserted into a bundle: an entry chunk, a chunk that is no
\* entry, or an asset.
OutputFile(kind, k) ==
  [fileName |-> "file" \o ToString(k), isAsset |-> kind = "asset", isEntry |-> kind = "entry"]

\* Object.keys(outputBundle).map(fileName => outputBundle[fileName]) for the
\* bundles of up to MaxFiles files.
OutputBundles ==
  {[k \in DOMAIN kinds |-> OutputFile(kinds[k], k)] :
     kinds \in UNION {[1..n -> FileKinds] : n \in 0..MaxFiles}}

\* isOutputAsset, lines 387-389.
IsOutputAsset(file) == file.isAsset = TRUE

\* The comparator of lines 377-383.  Line 382, "outputFileB.isEntry ? 1 : 0;",
\* is an expression statement: the function returns undefined there, which
\* Array.prototype.sort takes as +0.
CompareFiles(a, b) ==
  IF IsOutputAsset(a) THEN (IF IsOutputAsset(b) THEN 0 ELSE 1)
  ELSE IF IsOutputAsset(b) THEN -1
  ELSE IF a.isEntry THEN (IF b.isEntry THEN 0 ELSE -1)
  ELSE 0

\* Array.prototype.sort leaves the order open when the comparator is not
\* consistent; two insertion sorts engines use for short arrays: "linear"
\* moves the new element down while comparefn(element before it, new) > 0,
\* "binary" searches its place with comparefn(new, element at mid) < 0.
SortEngines == {"linear", "binary"}

\* Number of elements of sorted that stay before x, scanning down from j.
RECURSIVE LinearPlace(_, _, _)
LinearPlace(sorted, x, j) ==
  IF j = 0 THEN 0
  ELSE IF CompareFiles(sorted[j], x) > 0 THEN LinearPlace(sorted, x, j - 1)
  ELSE j

\* Number of elements of sorted that stay before x, searching in [left, right).
RECURSIVE BinaryPlace(_, _, _, _)
BinaryPlace(sorted, x, left, right) ==
  IF left >= right THEN left
  ELSE LET mid == left + ((right - left) \div 2)
       IN IF CompareFiles(x, sorted[mid + 1]) < 0
          THEN BinaryPlace(sorted, x, left, mid)
          ELSE BinaryPlace(sorted, x, mid + 1, right)

InsertAt(sorted, x, n) ==
  SubSeq(sorted, 1, n) \o <<x>> \o SubSeq(sorted, n + 1, Len(sorted))

\* files.sort(comparefn) from the k-th file on, the files before it sorted.
RECURSIVE SortFiles(_, _, _, _)
SortFiles(files, k, sorted, engine) ==
  IF k > Len(files) THEN sorted
  ELSE LET n == IF engine = "linear" THEN LinearPlace(sorted, files[k], Len(sorted))
                ELSE BinaryPlace(sorted, files[k], 0, Len(sorted))
       IN SortFiles(files, k + 1, InsertAt(sorted, files[k], n), engine)

\* createOutput, lines 373-385: the "output" list.
CreateOutput(bundle, engine) == SortFiles(bundle, 1, <<>>, engine)

\* createOutput is applied to a bundle.
CreateOutputCall ==
  /\ createOutputRes = <<>>
  /\ createOutputRes' = <<CreateOutput(createOutputArg, sortEngine)>>
  /\ UNCHANGED <<createOutputArg, sortEngine, inputOutput, rawOutputOptions, outputOptions>>
  /\ UNCHANGED <<buildVars, genVars, optVars, watchVars>>

----------------------------------------------------------------------------
(* normalizeOutputOptions                                                  *)

OutputKeys == {"format", "name"}

Absent == "absent"

\* What a source may hold for a key: nothing, or one of three values.
OptionValues == {Absent, "a", "b", "c"}

OptionSource == [OutputKeys -> OptionValues]

\* { ...a, ...b }: a key b has overrides the one of a.
Spread(a, b) == [k \in OutputKeys |-> IF b[k] # Absent THEN b[k] ELSE a[k]]

\* mergeOptions({config: {output: o}}).outputOptions[0], for the keys of o.
MergeOutputOptions(o) == o

\* checkOutputOptions, lines 55-60.
OutputOptionError(o) == IF o["format"] = Absent THEN <<"FORMAT_REQUIRED", 0>> ELSE NoErr

\* normalizeOutputOptions, lines 435-464: line 445 spreads the top-level
\* fields of rawOutputOptions, then rawOutputOptions.output, then
\* inputOptions.output.
NormalizeOutputOptions(inputOut, raw) ==
  LET merged == MergeOutputOptions(Spread(Spread(raw.top, raw.output), inputOut))
  IN [err |-> OutputOptionError(merged), value |-> merged]

\* normalizeOutputOptions is applied.
NormalizeCall ==
  /\ outputOptions = <<>>
  /\ outputOptions' = <<NormalizeOutputOptions(inputOutput, rawOutputOptions)>>
  /\ UNCHANGED <<createOutputArg, sortEngine, createOutputRes, inputOutput, rawOutputOptions>>
  /\ UNCHANGED <<buildVars, genVars, optVars, watchVars>>

\* No call of the two functions above is being looked at.
NoFunctionCall ==
  /\ createOutputArg = <<>>
  /\ sortEngine = "linear"
  /\ createOutputRes = <<>>
  /\ inputOutput = [k \in OutputKeys |-> Absent]
  /\ rawOutputOptions = [top |-> [k \in OutputKeys |-> Absent],
                         output |-> [k \in OutputKeys |-> Absent]]
  /\ outputOptions = <<>>

----------------------------------------------------------------------------
(* Specifications                                                          *)

\* The chunk lists graph.build may resolve with: the first chunk is an entry
\* chunk, the others entry or shared chunks.
ChunkLists ==
  {cs \in UNION {[1..n -> [isEntry : BOOLEAN]] : n \in 1..MaxChunks} :
     \A k \in DOMAIN cs : cs[k].isEntry <=> k = 1}

\* The registries the BUILD phase may leave: no asset, one emitted with its
\* source, one emitted without.
AssetRegistries ==
  {<<>>, <<NewAsset("logo", "bytes")>>, <<NewAsset("late", Undefined)>>}

\* rollup() has resolved (with plugins that define no buildStart or buildEnd).
BuildResolved ==
  /\ hasBuildStart = {}
  /\ hasBuildEnd = {}
  /\ rollupPc = "resolved"
  /\ rollupResult = Build
  /\ buildStartCalls = [p \in Plugins |-> 0]
  /\ buildStartState = [p \in Plugins |-> "idle"]
  /\ startAll = [st |-> "fulfilled", err |-> NoErr]
  /\ graphBuild = "ok"
  /\ buildErr = NoErr
  /\ buildEndCalls = [p \in Plugins |-> 0]
  /\ buildEndState = [p \in Plugins |-> "idle"]
  /\ buildEndArg = [p \in Plugins |-> NoErr]
  /\ endAll = [st |-> "fulfilled", err |-> NoErr]
  /\ rawInputOptions = [DefaultInputOptions EXCEPT !.optimizeChunks = optimizeChunksOpt]
  /\ optionsHook = [p \in Plugins |-> "absent"]
  /\ optionsTrace = <<>>
  /\ inputOptions = <<rawInputOptions>>
  /\ graphOptions = <<rawInputOptions>>
  /\ curWatcher = NoWatcher
  /\ graphWatchers = <<GraphMade(NoWatcher, TRUE)>>
  /\ watchersSet = 0
  /\ rollupCalls = 1

\* The builds explored.  Each varies some of the inputs and keeps the others
\* at their simplest value: the chunk list and the optimizeChunks option; the
\* ongenerate hooks; the generateBundle hooks and the assets of the registry;
\* ongenerate and generateBundle hooks together.
Setup ==
  LET noScripts == \A p \in Plugins : generateBundleScript[p] = "absent"
  IN \/ hasOngenerate = {} /\ noScripts /\ assetsById = <<>>
     \/ noScripts /\ assetsById = <<>> /\ Len(chunks) = 1 /\ ~optimizeChunksOpt
     \/ hasOngenerate = {} /\ Len(chunks) = 1 /\ ~optimizeChunksOpt
     \/ /\ hasOngenerate = {1}
        /\ generateBundleScript \in [Plugins -> {"noop"}]
        /\ assetsById = <<>> /\ optimizeChunksOpt

GenInit ==
  /\ NoFunctionCall
  /\ optimizeChunksOpt \in BOOLEAN
  /\ BuildResolved
  /\ optimized = FALSE
  /\ optimizeCalls = 0
  /\ chunks \in ChunkLists
  /\ chunkId = [k \in 1..Len(chunks) |-> Undefined]
  /\ assetsById \in AssetRegistries
  /\ hasOngenerate \in SUBSET Plugins
  /\ hasOnwrite = {}
  /\ generateBundleScript \in [Plugins -> Scripts]
  /\ Setup
  /\ calls = [c \in Calls |-> IdleCall]
  /\ running = 0

GenNext ==
  \/ \E c \in Calls, call \in CallChoices : GenerateCall(c, call[1], call[2])
  \/ \E c \in Calls, ok \in BOOLEAN : AddonsSettle(c, ok)
  \/ \E c \in Calls, ok \in BOOLEAN : PreRenderChunk(c, ok)
  \/ \E c \in Calls : OptimizeStep(c)
  \/ \E c \in Calls : NameChunk(c)
  \/ \E c \in Calls : StartRenders(c)
  \/ \E c \in Calls, i \in 1..MaxChunks, ok \in BOOLEAN : RenderSettle(c, i, ok)
  \/ \E c \in Calls, i \in 1..MaxChunks, p \in Plugins, ok \in BOOLEAN :
       OngenerateSettle(c, i, p, ok)
  \/ \E c \in Calls : RenderRejected(c)
  \/ \E c \in Calls : GenerateBundleStage(c)
  \/ \E c \in Calls, p \in Plugins : GenerateBundleSettle(c, p)
  \/ \E c \in Calls : GenerateBundleDone(c)
  \/ \E c \in Calls : WriteAfterGenerate(c)
  \/ \E c \in Calls, ok \in BOOLEAN : WriteSettle(c, ok)

\* The calls of a caller that awaits each call before making the next one.
SeqChoices ==
  CallChoices \cup
    {<<FileEs, FALSE>>, <<FileAndDir, TRUE>>, <<DirUmd, TRUE>>, <<DirIife, FALSE>>,
     <<DirEsMap, FALSE>>, <<DirEsMapFile, TRUE>>, <<FileEsMapFile, TRUE>>}

\* The Builds such a caller is given: without hooks of the generate phase,
\* with ongenerate hooks only, or with generateBundle hooks that look at the
\* output options.
SeqSetup ==
  LET noScripts == \A p \in Plugins : generateBundleScript[p] = "absent"
  IN \/ hasOngenerate = {} /\ noScripts
     \/ noScripts /\ assetsById = <<>> /\ Len(chunks) = 1 /\ ~optimizeChunksOpt
     \/ /\ hasOngenerate = {} /\ Len(chunks) = 1 /\ ~optimizeChunksOpt
        /\ assetsById # <<>>

SeqInit ==
  /\ NoFunctionCall
  /\ optimizeChunksOpt \in BOOLEAN
  /\ BuildResolved
  /\ optimized = FALSE
  /\ optimizeCalls = 0
  /\ chunks \in ChunkLists
  /\ chunkId = [k \in 1..Len(chunks) |-> Undefined]
  /\ assetsById \in AssetRegistries
  /\ hasOngenerate \in SUBSET Plugins
  /\ hasOnwrite = {}
  /\ generateBundleScript \in [Plugins -> OptionDependentScripts \cup {"absent"}]
  /\ SeqSetup
  /\ calls = [c \in Calls |-> IdleCall]
  /\ running = 0

\* A call made when no other call of the Build is in flight.
SeqGenerateCall(c, opts, isWrite) ==
  /\ \A d \in Calls : ~InFlight(calls[d])
  /\ GenerateCall(c, opts, isWrite)

SeqNext ==
  \/ \E c \in Calls, call \in SeqChoices : SeqGenerateCall(c, call[1], call[2])
  \/ \E c \in Calls, ok \in BOOLEAN : AddonsSettle(c, ok)
  \/ \E c \in Calls, ok \in BOOLEAN : PreRenderChunk(c, ok)
  \/ \E c \in Calls : OptimizeStep(c)
  \/ \E c \in Calls : NameChunk(c)
  \/ \E c \in Calls : StartRenders(c)
  \/ \E c \in Calls, i \in 1..MaxChunks, ok \in BOOLEAN : RenderSettle(c, i, ok)
  \/ \E c \in Calls, i \in 1..MaxChunks, p \in Plugins, ok \in BOOLEAN :
       OngenerateSettle(c, i, p, ok)
  \/ \E c \in Calls : RenderRejected(c)
  \/ \E c \in Calls : GenerateBundleStage(c)
  \/ \E c \in Calls, p \in Plugins : GenerateBundleSettle(c, p)
  \/ \E c \in Calls : GenerateBundleDone(c)
  \/ \E c \in Calls : WriteAfterGenerate(c)
  \/ \E c \in Calls, ok \in BOOLEAN : WriteSettle(c, ok)

\* Largest number of setWatcher calls and of rollup() calls (bounds).
MaxWatchers == 2
MaxRollups == 3

\* setWatcher(watcher), lines 148-150.  Every call registers a watcher of
\* its own, numbered in the order of the calls.
SetWatcher ==
  /\ watchersSet < MaxWatchers
  /\ watchersSet' = watchersSet + 1
  /\ curWatcher' = watchersSet + 1
  /\ UNCHANGED <<graphWatchers, rollupCalls>>
  /\ UNCHANGED <<buildVars, genVars, optVars, fnVars>>

\* The options of the rollup() calls made while a watcher may be registered:
\* plain ones, and ones getInputOptions rejects (line 96).
WatchOptions == {DefaultInputOptions, [DefaultInputOptions EXCEPT !.legacy = TRUE]}

\* The caller calls rollup() again (line 151) once the promise of the
\* previous call has settled: a new promise chain on new options.
NextRollup ==
  /\ rollupPc \in {"resolved", "rejected"}
  /\ rollupCalls < MaxRollups
  /\ rollupCalls' = rollupCalls + 1
  /\ rawInputOptions' \in WatchOptions
  /\ optionsTrace' = <<>>
  /\ inputOptions' = <<>>
  /\ graphOptions' = <<>>
  /\ rollupPc' = "start"
  /\ rollupResult' = <<"pending", 0>>
  /\ buildStartCalls' = [p \in Plugins |-> 0]
  /\ buildStartState' = [p \in Plugins |-> "idle"]
  /\ startAll' = NoPromise
  /\ graphBuild' = "idle"
  /\ buildErr' = NoErr
  /\ buildEndCalls' = [p \in Plugins |-> 0]
  /\ buildEndState' = [p \in Plugins |-> "idle"]
  /\ buildEndArg' = [p \in Plugins |-> NoErr]
  /\ endAll' = NoPromise
  /\ UNCHANGED <<hasBuildStart, hasBuildEnd, optionsHook, curWatcher, graphWatchers,
                 watchersSet>>
  /\ UNCHANGED <<genVars, fnVars>>

\* rollup() calls on plugins of which the first may define buildStart and
\* buildEnd, without options hooks.
WatchInit ==
  /\ BuildInit
  /\ rawInputOptions \in WatchOptions
  /\ optionsHook = [p \in Plugins |-> "absent"]
  /\ hasBuildStart \subseteq {1} /\ hasBuildEnd = hasBuildStart
  /\ NoBuildYet
  /\ NoFunctionCall

WatchNext ==
  \/ SetWatcher
  \/ NextRollup
  \/ RollupStart
  \/ RollupGraphThrows
  \/ \E p \in Plugins, ok \in BOOLEAN : BuildStartSettle(p, ok)
  \/ GraphBuildStart
  \/ \E ok \in BOOLEAN : GraphBuildSettle(ok)
  \/ BuildEndInvoke
  \/ \E p \in Plugins, ok \in BOOLEAN : BuildEndSettle(p, ok)
  \/ RollupSettle

\* The first call made on a Build, followed to the end of its file writes:
\* a write without source maps, with external and with inline ones, one with
\* sourcemapFile, and a generate.
WriteChoices ==
  {<<DirEs, TRUE>>, <<DirEsMap, TRUE>>, <<DirEsInline, TRUE>>, <<DirEsMapFile, TRUE>>,
   <<DirEsMap, FALSE>>}

\* The Builds such a caller is given: plugins with onwrite hooks only, with
\* generateBundle hooks as well, or with an ongenerate hook only.
WriteSetup ==
  LET noScripts == \A p \in Plugins : generateBundleScript[p] = "absent"
  IN \/ hasOngenerate = {} /\ noScripts
     \/ /\ hasOngenerate = {} /\ Len(chunks) = 1
        /\ hasOnwrite \subseteq {1}
     \/ /\ hasOngenerate = {1} /\ noScripts /\ Len(chunks) = 1 /\ assetsById = <<>>
        /\ hasOnwrite = {}

WriteInit ==
  /\ NoFunctionCall
  /\ optimizeChunksOpt = FALSE
  /\ BuildResolved
  /\ optimized = FALSE
  /\ optimizeCalls = 0
  /\ chunks \in ChunkLists
  /\ chunkId = [k \in 1..Len(chunks) |-> Undefined]
  /\ assetsById \in AssetRegistries
  /\ hasOngenerate \in SUBSET Plugins
  /\ hasOnwrite \in SUBSET Plugins
  /\ generateBundleScript \in [Plugins -> {"absent", "noop", "emit", "setSource"}]
  /\ WriteSetup
  /\ calls = [c \in Calls |-> IdleCall]
  /\ running = 0

WriteNext ==
  \/ \E call \in WriteChoices : SeqGenerateCall(1, call[1], call[2])
  \/ \E c \in Calls, ok \in BOOLEAN : AddonsSettle(c, ok)
  \/ \E c \in Calls, ok \in BOOLEAN : PreRenderChunk(c, ok)
  \/ \E c \in Calls : OptimizeStep(c)
  \/ \E c \in Calls : NameChunk(c)
  \/ \E c \in Calls : StartRenders(c)
  \/ \E c \in Calls, i \in 1..MaxChunks, ok \in BOOLEAN : RenderSettle(c, i, ok)
  \/ \E c \in Calls, i \in 1..MaxChunks, p \in Plugins, ok \in BOOLEAN :
       OngenerateSettle(c, i, p, ok)
  \/ \E c \in Calls : RenderRejected(c)
  \/ \E c \in Calls : GenerateBundleStage(c)
  \/ \E c \in Calls, p \in Plugins : GenerateBundleSettle(c, p)
  \/ \E c \in Calls : GenerateBundleDone(c)
  \/ \E c \in Calls : WriteAfterGenerate(c)
  \/ \E c \in Calls, k \in 1..MaxWritten, ok \in BOOLEAN : CodeWriteSettle(c, k, ok)
  \/ \E c \in Calls, k \in 1..MaxWritten, ok \in BOOLEAN : MapWriteSettle(c, k, ok)
  \/ \E c \in Calls, k \in 1..MaxWritten : AfterWrites(c, k)
  \/ \E c \in Calls, k \in 1..MaxWritten, p \in Plugins, ok \in BOOLEAN :
       OnwriteSettle(c, k, p, ok)
  \/ \E c \in Calls : WriteDone(c)

InitBuild == BuildInit /\ BuildSetup /\ NoBuildYet /\ NoFunctionCall

\* A rollup() call not yet made, with plain options.
PlainBuild ==
  /\ BuildInit
  /\ hasBuildStart = {} /\ hasBuildEnd = {}
  /\ rawInputOptions = DefaultInputOptions
  /\ optionsHook = [p \in Plugins |-> "absent"]
  /\ NoBuildYet

OutputInit ==
  /\ PlainBuild
  /\ createOutputArg \in OutputBundles
  /\ sortEngine \in SortEngines
  /\ createOutputRes = <<>>
  /\ inputOutput = [k \in OutputKeys |-> Absent]
  /\ rawOutputOptions = [top |-> [k \in OutputKeys |-> Absent],
                         output |-> [k \in OutputKeys |-> Absent]]
  /\ outputOptions = <<>>

OutputNext == CreateOutputCall

NormalizeInit ==
  /\ PlainBuild
  /\ createOutputArg = <<>>
  /\ sortEngine = "linear"
  /\ createOutputRes = <<>>
  /\ inputOutput \in OptionSource
  /\ rawOutputOptions \in [top : OptionSource, output : OptionSource]
  /\ outputOptions = <<>>

NormalizeNext == NormalizeCall

SpecBuild == InitBuild /\ [][BuildNext]_vars

SpecGen == GenInit /\ [][GenNext]_vars

SpecOutput == OutputInit /\ [][OutputNext]_vars

SpecSeq == SeqInit /\ [][SeqNext]_vars

SpecWrite == WriteInit /\ [][WriteNext]_vars

SpecWatch == WatchInit /\ [][WatchNext]_vars

SpecNormalize == NormalizeInit /\ [][NormalizeNext]_vars

----------------------------------------------------------------------------
(* Properties                                                              *)

\* C1: when rollup() resolves to a Build, every plugin that defines buildStart
\* had it invoked exactly once and every plugin that defines buildEnd had it
\* invoked exactly once, without an error argument; graph.build is started
\* only when every buildStart hook has settled, and buildEnd is invoked
\* without an error only when graph.build has completed.
C1_BuildHooksOnceInOrder ==
  /\ rollupResult = Build =>
       \A p \in Plugins :
         /\ buildStartCalls[p] = IF p \in hasBuildStart THEN 1 ELSE 0
         /\ buildEndCalls[p] = IF p \in hasBuildEnd THEN 1 ELSE 0
         /\ buildEndArg[p] = NoErr
  /\ graphBuild # "idle" =>
       \A p \in hasBuildStart : buildStartCalls[p] = 1 /\ buildStartState[p] = "ok"
  /\ \A p \in Plugins :
       (buildEndCalls[p] > 0 /\ buildEndArg[p] = NoErr) => graphBuild = "ok"

\* A Build was returned by a rollup() whose plugins all define both hooks.
C1_Witness ==
  rollupResult = Build /\ hasBuildStart = Plugins /\ hasBuildEnd = Plugins

\* C2: if graph.build fails with e, no Build is returned, and when rollup()
\* has rejected it has rejected with e, after buildEnd was invoked exactly
\* once with e on every plugin that defines it and those hooks have completed.
C2_GraphFailureRunsBuildEnd ==
  /\ graphBuild = "failed" => rollupResult # Build
  /\ (graphBuild = "failed" /\ rollupPc = "rejected") =>
       /\ rollupResult = GraphErr
       /\ \A p \in hasBuildEnd :
            /\ buildEndCalls[p] = 1
            /\ buildEndArg[p] = GraphErr
            /\ buildEndState[p] \in {"ok", "failed"}

\* C3: if a buildStart hook fails with e (thrown or rejected), graph.build is
\* never started, and when rollup() has rejected, buildEnd has been invoked
\* with e on every plugin that defines it.
C3_BuildStartFailureRunsBuildEnd ==
  (\E p \in Plugins : buildStartState[p] = "failed") =>
    /\ graphBuild = "idle"
    /\ rollupPc = "rejected" =>
         \A q \in hasBuildEnd : buildEndCalls[q] = 1 /\ buildEndArg[q][1] = "buildStart"

\* C4: if the build failed with e and a buildEnd hook invoked with e failed
\* with another error, rollup() rejects with e.
C4_OriginalErrorWins ==
  (/\ rollupPc = "rejected"
   /\ buildErr # NoErr
   /\ \E p \in Plugins : buildEndState[p] = "failed" /\ buildEndArg[p] = buildErr)
  => rollupResult = buildErr

\* C5: no fan-out surfaces a failure while a sibling hook is in flight:
\* buildEnd is not invoked while a buildStart hook is pending, rollup() has
\* not rejected while a buildStart or buildEnd hook is pending, and a
\* generate/write call has not rejected while one of its ongenerate or
\* generateBundle hooks is pending.
C5_FanOutAwaitsSiblings ==
  /\ (\E p \in Plugins : buildEndCalls[p] > 0) =>
       \A q \in Plugins : buildStartState[q] # "pending"
  /\ rollupPc = "rejected" =>
       \A q \in Plugins : buildStartState[q] # "pending" /\ buildEndState[q] # "pending"
  /\ \A c \in Calls :
       calls[c].pc = "failed" =>
         \A q \in Plugins :
           /\ calls[c].bundleHook[q] # "pending"
           /\ \A i \in ChunkIdx : calls[c].ongenerate[i][q] # "pending"

HasChunkEntry(bundle, id) ==
  \E k \in DOMAIN bundle : bundle[k].fileName = id /\ ~bundle[k].isAsset

\* C7: within one call, optimization runs and chunks are named only when
\* every chunk is pre-rendered, no chunk is named before the optimization
\* step is over, renders start only when every chunk is named and has a
\* skeleton entry, and generateBundle hooks are invoked only when every
\* render and every ongenerate hook of the call has completed.
C7_GeneratePhasesInOrder ==
  \A c \in Calls :
    LET call == calls[c]
        named == \E k \in DOMAIN call.outputBundle : ~call.outputBundle[k].isAsset
    IN /\ (call.ranOptimize \/ named) => call.preRendered = ChunkIdx
       /\ named => call.pc \notin {"idle", "addons", "prerender", "optimize"}
       /\ (\E i \in ChunkIdx : call.render[i] # "idle") =>
            \A i \in ChunkIdx :
              /\ call.capturedId[i] # Undefined
              /\ HasChunkEntry(call.outputBundle, call.capturedId[i])
       /\ (\E p \in Plugins : call.bundleHook[p] # "idle") =>
            \A i \in ChunkIdx :
              /\ call.render[i] = "ok"
              /\ \A p \in Plugins : call.ongenerate[i][p] \in {"idle", "ok"}

\* A call on two chunks ran the optimization, the ongenerate hooks and the
\* generateBundle hooks, and resolved.
C7_Witness ==
  /\ Len(chunks) = 2
  /\ calls[1].pc = "done" /\ calls[1].ranOptimize
  /\ \E p \in Plugins : calls[1].ongenerate[2][p] = "ok"
  /\ \E p \in Plugins : calls[1].bundleHook[p] = "ok"

\* C8: a generate/write call does not get through its generate phase while
\* an asset of the registry has no source.
C8_MissingSourceFails ==
  \A c \in Calls :
    calls[c].pc \in {"generated", "writing", "done"} =>
      \A k \in DOMAIN assetsById : assetsById[k].source # Undefined

\* C9: no step adds an entry to graph.assetsById, and an asset emitted inside
\* a generateBundle hook of one call is in the bundle of no other call.
C9_EmittedAssetStaysInCall ==
  [][/\ Len(assetsById') = Len(assetsById)
     /\ \A d \in Calls :
          \A k \in DOMAIN calls'[d].outputBundle :
            calls'[d].outputBundle[k].asset[1] = "call" =>
              calls'[d].outputBundle[k].asset[2] = d]_vars

\* Two overlapping calls have both resolved, each with an asset its
\* generateBundle hooks emitted.
C9_Witness ==
  /\ calls[1].pc = "done" /\ calls[2].pc = "done" /\ calls[2].overlapped
  /\ Len(calls[1].emitted) > 0 /\ Len(calls[2].emitted) > 0

\* The failures of a call that do not come from the plugins' generateBundle
\* hooks or the registry: a collaborator or an ongenerate hook failed.
Incidental == {"createAddons", "preRender", "render", "ongenerate"}

\* C10: of two generate calls with the same output options, the second
\* started after the first resolved, the second resolves too (unless a
\* collaborator fails) and gives the same bundle.
C10_RepeatedGenerateSameBundle ==
  \A c, d \in Calls :
    (/\ c < d
     /\ ~calls[c].isWrite /\ ~calls[d].isWrite
     /\ calls[c].opts = calls[d].opts
     /\ calls[c].pc = "done"
     /\ ~calls[d].overlapped
     /\ calls[d].pc \in {"done", "failed"}
     /\ calls[d].err[1] \notin Incidental)
    => /\ calls[d].pc = "done"
       /\ Content(calls[d].outputBundle) = Content(calls[c].outputBundle)

\* C16: once rollup() has run getInputOptions on options whose folded value
\* has preserveModules together with inlineDynamicImports, manualChunks or
\* optimizeChunks, it has rejected with INVALID_OPTION, no Graph was
\* constructed and no buildStart hook was invoked.
C16_PreserveModulesConflicts ==
  LET o == GetInputOptions(rawInputOptions).value
  IN (/\ rollupPc # "start"
      /\ ~rawInputOptions.legacy
      /\ o.preserveModules
      /\ o.inlineDynamicImports \/ o.manualChunks \/ o.optimizeChunks)
     => /\ rollupPc = "rejected"
        /\ rollupResult[1] = "INVALID_OPTION"
        /\ graphOptions = <<>>
        /\ \A p \in Plugins : buildStartCalls[p] = 0

\* C18: the options hooks were invoked once each, in declared plugin order;
\* the first received the merged raw options and every other one what the
\* hook before it produced (a hook that returns nothing produces what it
\* received); what the last one produced is what the checks of lines 106-142
\* judged and what the Graph was constructed with.
C18_OptionsFoldedInOrder ==
  LET withHook == {p \in Plugins : optionsHook[p] # "absent"}
      n == Len(optionsTrace)
      produced(k) ==
        IF optionsHook[optionsTrace[k][1]] = "nothing" THEN optionsTrace[k][2]
        ELSE OptionsHookValue(optionsHook[optionsTrace[k][1]], optionsTrace[k][2])
      folded == IF n = 0 THEN rawInputOptions ELSE produced(n)
  IN (rollupPc # "start" /\ ~rawInputOptions.legacy) =>
       /\ n = Cardinality(withHook)
       /\ \A k \in 1..n : optionsTrace[k][1] \in withHook
       /\ \A k \in 1..(n - 1) : optionsTrace[k][1] < optionsTrace[k + 1][1]
       /\ n > 0 => optionsTrace[1][2] = rawInputOptions
       /\ \A k \in 1..(n - 1) : optionsTrace[k + 1][2] = produced(k)
       /\ IF InputOptionError(folded) # NoErr
          THEN rollupPc = "rejected" /\ rollupResult = InputOptionError(folded)
               /\ graphOptions = <<>>
          ELSE inputOptions = <<folded>> /\ graphOptions = <<folded>>

\* The first plugin's hook sets preserveModules and the second, which copies
\* the preserveModules it receives into manualChunks, made rollup() reject:
\* the other order would have passed.
C18_Witness ==
  /\ rawInputOptions = DefaultInputOptions
  /\ optionsHook[1] = "preserve" /\ optionsHook[2] = "manualIfPreserve"
  /\ Len(optionsTrace) = 2
  /\ rollupResult = <<"INVALID_OPTION", 132>>

FileRank(file) == IF file.isAsset THEN 2 ELSE IF file.isEntry THEN 0 ELSE 1

\* C12: the list createOutput returns holds every file of the bundle exactly
\* once, entry chunks before the other chunks before assets, files of one
\* category in the order they were inserted in.
C12_OutputSortedStable ==
  createOutputRes # <<>> =>
    LET out == createOutputRes[1]
        Pos(file) == CHOOSE k \in DOMAIN createOutputArg : createOutputArg[k] = file
    IN /\ Len(out) = Len(createOutputArg)
       /\ \A k \in DOMAIN createOutputArg : \E j \in DOMAIN out : out[j] = createOutputArg[k]
       /\ \A i, j \in DOMAIN out :
            i < j => /\ FileRank(out[i]) <= FileRank(out[j])
                     /\ FileRank(out[i]) = FileRank(out[j]) => Pos(out[i]) < Pos(out[j])

\* C17: for every key, the value normalizeOutputOptions gives is the one of
\* rawOutputOptions.output when it has the key, else the top-level one of
\* rawOutputOptions when it has the key, else the one of inputOptions.output.
C17_OutputOptionPrecedence ==
  outputOptions # <<>> =>
    \A k \in OutputKeys :
      outputOptions[1].value[k] =
        IF rawOutputOptions.output[k] # Absent THEN rawOutputOptions.output[k]
        ELSE IF rawOutputOptions.top[k] # Absent THEN rawOutputOptions.top[k]
        ELSE inputOutput[k]

\* What a call that was turned away before the GENERATE phase has done: nothing.
NothingGenerated(call) ==
  /\ call.outputBundle = <<>>
  /\ call.preRendered = {}
  /\ ~call.ranOptimize
  /\ \A i \in ChunkIdx :
       /\ call.capturedId[i] = Undefined
       /\ call.render[i] = "idle"
       /\ call.chunkDone[i] = "idle"
       /\ \A p \in Plugins : call.ongenerate[i][p] = "idle"
  /\ \A p \in Plugins : call.bundleHook[p] = "idle"
  /\ call.written = <<>>

\* C13: a generate or write call whose options set both output.file and
\* output.dir fails with INVALID_OPTION, and has then finalised no asset,
\* pre-rendered, named or rendered no chunk, invoked no ongenerate or
\* generateBundle hook and handed no file to writeOutputFile (which is also
\* where the onwrite hooks are invoked); the step that makes the call leaves
\* the asset registry and the chunk ids as they were.
C13_FileAndDirRejectedFirst ==
  /\ [](\A c \in Calls :
          (/\ calls[c].pc # "idle"
           /\ calls[c].opts.file # Undefined
           /\ calls[c].opts.dir # Undefined)
          => /\ calls[c].pc = "failed"
             /\ calls[c].err[1] = "INVALID_OPTION"
             /\ NothingGenerated(calls[c]))
  /\ [][\A c \in Calls :
          (/\ calls[c].pc = "idle" /\ calls'[c].pc # "idle"
           /\ calls'[c].opts.file # Undefined
           /\ calls'[c].opts.dir # Undefined)
          => /\ assetsById' = assetsById
             /\ chunkId' = chunkId
             /\ optimized' = optimized]_vars

\* A write with both file and dir has failed on a Build whose registry holds
\* an asset that a GENERATE phase would have finalised.
C13_Witness ==
  \E c \in Calls :
    /\ calls[c].opts = FileAndDir
    /\ calls[c].isWrite
    /\ calls[c].pc = "failed"
    /\ assetsById # <<>>
    /\ assetsById[1].source # Undefined
    /\ assetsById[1].fileName = Undefined

\* C14: a generate or write call with format umd or iife fails with
\* INVALID_OPTION when the Build has more than one chunk, and has then
\* pre-rendered and rendered no chunk and invoked no hook of the generate
\* phase; on a Build of exactly one chunk it does not fail with that error.
C14_SingleChunkFormats ==
  \A c \in Calls :
    (calls[c].pc # "idle" /\ calls[c].opts.format \in {"umd", "iife"})
    => /\ Len(chunks) > 1 =>
            /\ calls[c].pc = "failed"
            /\ calls[c].err[1] = "INVALID_OPTION"
            /\ NothingGenerated(calls[c])
       /\ Len(chunks) = 1 => calls[c].err[1] # "INVALID_OPTION"

\* An iife call has failed on a Build of two chunks after a umd call did.
C14_Witness ==
  /\ Len(chunks) > 1
  /\ \E c, d \in Calls :
       /\ c # d
       /\ calls[c].opts.format = "umd" /\ calls[c].pc = "failed"
       /\ calls[d].opts.format = "iife" /\ calls[d].pc = "failed"
       /\ calls[d].err = <<"INVALID_OPTION", 2>>

\* The calls whose generate() promise has fulfilled.
GenerateResolved(call) == call.pc \in {"generated", "writing", "done"}

\* C11: when a generate call has resolved, every chunk entry of its bundle has
\* a file name, a code that is the render result of the chunk the entry was
\* made for, and a map exactly when outputOptions.sourcemap is set; none has
\* its code unset.
C11_ChunkEntriesComplete ==
  \A c \in Calls :
    GenerateResolved(calls[c]) =>
      \A k \in DOMAIN calls[c].outputBundle :
        LET entry == calls[c].outputBundle[k]
        IN ~entry.isAsset =>
             /\ entry.fileName # Undefined
             /\ entry.code # Undefined
             /\ entry.code = RenderedCode(entry.chunk, calls[c].opts)
             /\ entry.map # Undefined
             /\ (entry.map # "null") <=> calls[c].opts.sourcemap

\* C20: a write call with output.file on a Build of more than one chunk never
\* gets to write: it hands no file to writeOutputFile and does not resolve,
\* and when it has failed after its generate resolved, it failed with
\* INVALID_OPTION.
C20_FileWithSeveralChunksRejected ==
  \A c \in Calls :
    (/\ calls[c].pc # "idle"
     /\ calls[c].isWrite
     /\ calls[c].opts.file # Undefined
     /\ Len(chunks) > 1)
    => /\ calls[c].written = <<>>
       /\ calls[c].pc \notin {"writing", "done"}
       /\ calls[c].pc = "failed" => calls[c].err[1] # "writeFile"

\* C15: a write call with output.sourcemapFile on a Build of more than one
\* chunk does not get to write and does not resolve; on a Build of exactly
\* one chunk it is not rejected for sourcemapFile, whatever assets the bundle
\* holds.
C15_SourcemapFileSingleChunk ==
  \A c \in Calls :
    (/\ calls[c].pc # "idle"
     /\ calls[c].isWrite
     /\ calls[c].opts.sourcemapFile # Undefined)
    => /\ Len(chunks) > 1 =>
            /\ calls[c].written = <<>>
            /\ calls[c].pc \notin {"writing", "done"}
       /\ Len(chunks) = 1 => calls[c].err # <<"INVALID_OPTION", 4>>

\* A call that failed because a render, an ongenerate hook or a generateBundle
\* hook failed.
FailedInGenerateStep(call) ==
  call.pc = "failed" /\ call.err[1] \in {"render", "ongenerate", "generateBundle"}

\* C19: when a call has failed in a render, ongenerate or generateBundle step
\* and a generate call made after it has resolved, the bundle of the later
\* call is complete (every chunk entry has its code) and holds nothing the
\* failed call produced: no asset the failed call emitted and no asset whose
\* source the failed call set.
C19_FailedCallLeavesNothing ==
  \A c, d \in Calls :
    (/\ c < d
     /\ FailedInGenerateStep(calls[c])
     /\ ~calls[d].isWrite
     /\ calls[d].pc = "done")
    => \A k \in DOMAIN calls[d].outputBundle :
         LET entry == calls[d].outputBundle[k]
         IN /\ ~entry.isAsset => entry.code # Undefined
            /\ (entry.isAsset /\ entry.asset[1] = "call") => entry.asset[2] = d
            /\ (entry.isAsset /\ entry.asset[1] = "graph") =>
                 assetsById[entry.asset[3]].setBy # c

\* The watchers passed to a Graph constructor so far, in order.
WatchersPassed ==
  [k \in DOMAIN graphWatchers |-> graphWatchers[k].watcher]

\* C25: a watcher registered with setWatcher is passed to the constructor of
\* at most one Graph; it is the Graph of the first rollup() call after the
\* setWatcher call that gets to construct one, the slot is empty from that
\* construction on, and the Graphs constructed afterwards get no watcher
\* until setWatcher is called again.
C25_WatcherConsumedOnce ==
  /\ [](\A j, k \in DOMAIN graphWatchers :
          (j # k /\ WatchersPassed[j] # NoWatcher) => WatchersPassed[j] # WatchersPassed[k])
  /\ [][Len(graphWatchers') > Len(graphWatchers)
          => /\ graphWatchers'[Len(graphWatchers')].watcher = curWatcher
             /\ curWatcher' = NoWatcher]_vars

\* C24: with calls interleaved at their suspension points, a render that
\* fulfils for chunk i of call c stores its code and map in the bundle of
\* call c, under the file name call c gave chunk i, and leaves the bundles of
\* the other calls alone; when every render of a call has fulfilled, none of
\* its chunk entries is left without code.
C24_RenderStoresInOwnBundle ==
  /\ [](\A c \in Calls :
          (\A i \in 1..Len(chunks) : calls[c].render[i] = "ok")
          => \A k \in DOMAIN calls[c].outputBundle :
               ~calls[c].outputBundle[k].isAsset => calls[c].outputBundle[k].code # Undefined)
  /\ [][\A c \in Calls, i \in 1..Len(chunks) :
          (calls[c].render[i] = "pending" /\ calls'[c].render[i] = "ok")
          => /\ \E k \in DOMAIN calls'[c].outputBundle :
                  /\ calls'[c].outputBundle[k].fileName = calls[c].named[i]
                  /\ calls'[c].outputBundle[k].code = RenderedCode(i, calls[c].opts)
                  /\ calls'[c].outputBundle[k].map = RenderedMap(i, calls[c].opts)
             /\ \A d \in Calls \ {c} : calls'[d].outputBundle = calls[d].outputBundle]_vars

\* Two overlapping calls have both resolved; the first one's chunk has since
\* been renamed by the other call, and its bundle has the code under the name
\* it gave the chunk.
C24_Witness ==
  \E c, d \in Calls :
    /\ c # d
    /\ calls[c].overlapped /\ calls[d].overlapped
    /\ calls[c].opts # calls[d].opts
    /\ calls[c].pc = "done" /\ calls[d].pc = "done"
    /\ calls[c].named[1] # chunkId[1]
    /\ calls[c].named[1] # calls[d].named[1]
    /\ \E k \in DOMAIN calls[c].outputBundle :
         /\ calls[c].outputBundle[k].fileName = calls[c].named[1]
         /\ calls[c].outputBundle[k].code = RenderedCode(1, calls[c].opts)

\* A writeFile that has been started.
WriteStarted(w) == w \in {"pending", "written", "failed"}

\* C21: for a chunk written with an external source map, the writeFile of the
\* code file is started only when the writeFile of the .map file has
\* completed, and writeOutputFile fulfils only when both files are written.
C21_MapWrittenBeforeCode ==
  \A c \in Calls :
    \A k \in DOMAIN calls[c].files :
      LET file == calls[c].files[k]
      IN file.map # "none" =>
           /\ WriteStarted(file.code) => file.map = "written"
           /\ file.stage = "done" => (file.code = "written" /\ file.map = "written")

\* The writeOutputFile of a chunk has got past its two writeFile calls.
PastWrites(file) == ~file.isAsset /\ file.stage \in {"onwrite", "done"}

GeneratePhaseOver(call) ==
  /\ call.renderAll.st = "fulfilled"
  /\ \A i \in 1..Len(chunks) : call.chunkDone[i] = "ok"
  /\ call.bundleAll.st \in {"none", "fulfilled"}
  /\ \A p \in Plugins : call.bundleHook[p] \in {"idle", "ok"}
  /\ \A k \in DOMAIN call.emitted : call.emitted[k].fileName # Undefined
  /\ call.bundleAll.st = "fulfilled" =>
       \A k \in 1..call.snapshot : assetsById[k].fileName # Undefined

\* C23: a write call has handed a file to writeOutputFile only when its
\* generate phase is over, generateBundle hooks and the finalisation of the
\* assets included; a write call that failed in the generate phase or in the
\* checks that follow it has written nothing.
C23_NoWriteBeforeGenerateDone ==
  \A c \in Calls :
    /\ (calls[c].written # <<>> \/ calls[c].files # <<>>) =>
         /\ calls[c].isWrite
         /\ GeneratePhaseOver(calls[c])
         /\ DOMAIN calls[c].files = DOMAIN calls[c].outputBundle
    /\ (calls[c].pc = "failed" /\ calls[c].err[1] \notin {"writeFile", "onwrite"}) =>
         (calls[c].written = <<>> /\ calls[c].files = <<>>)

\* A write call on a Build whose registry holds an asset is writing, after
\* its generateBundle hooks fulfilled, the asset one of them emitted.
C23_Witness ==
  \E c \in Calls :
    /\ calls[c].pc = "writing"
    /\ calls[c].emitted # <<>>
    /\ calls[c].bundleAll.st = "fulfilled"
    /\ calls[c].snapshot > 0
    /\ Len(calls[c].files) > 2
    /\ \E k \in DOMAIN calls[c].files :
         calls[c].files[k].isAsset /\ calls[c].files[k].code = "written"


====
